---- MODULE Spec2Model ----
(***************************************************************************)
(* SemanticCache (src/src/retrieval/semantic_cache.py): an LRU + TTL       *)
(* cache keyed by query text with a cosine-similarity fallback lookup,     *)
(* guarded by one re-entrant lock.                                         *)
(*                                                                         *)
(* Spec      : every public operation is one atomic step (one caller).     *)
(* SpecConc  : several threads; each operation is split at the lock        *)
(*             acquisition, its statements and the lock release.           *)
(* Similarities are percentages (cosine * 100); the input vectors are      *)
(* chosen so that every cosine is an exact multiple of 1/100.              *)
(*                                                                         *)
(* SimpleBM25 (src/src/retrieval/bm25_search.py), specification SpecBM25;  *)
(* save_index and load_index, specification SpecPersist.                  *)
(* QdrantVectorStore.search_by_code (src/src/retrieval/vector_store.py),   *)
(* specification SpecByCode.                                               *)
(* HierarchicalRetrievalPipeline.retrieve                                  *)
(* (src/src/retrieval/retrieval_pipeline.py), specification SpecPipe.      *)
(* OllamaQueryEnhancer.enhance_query                                       *)
(* (src/src/retrieval/query_enhancer.py), specification SpecEnhance.       *)
(* _assemble_context on its own, specification SpecAssemble; get and put   *)
(* with embeddings of two dimensions, specification SpecDim.               *)
(***************************************************************************)
EXTENDS Integers, Sequences, FiniteSets, TLC

VARIABLES max_size, ttl_seconds, similarity_threshold,
          cache, stats, now, lastOp, ret, ncalls,
          lock, pc, call, tret, saved,
          bm25, bm_call, bm_results, bm_file, bm_loaded, ld_results,
          store, code_call, code_results,
          reranker, use_cache, ppc, retr, outcome, at_entry, nretr,
          eq_call, eq_result, asm_call, asm_result

vars == <<max_size, ttl_seconds, similarity_threshold,
          cache, stats, now, lastOp, ret, ncalls,
          lock, pc, call, tret, saved,
          bm25, bm_call, bm_results, bm_file, bm_loaded, ld_results,
          store, code_call, code_results,
          reranker, use_cache, ppc, retr, outcome, at_entry, nretr,
          eq_call, eq_result, asm_call, asm_result>>

cfgVars == <<max_size, ttl_seconds, similarity_threshold>>
thrVars == <<lock, pc, call, tret, saved>>
cacheVars == <<cfgVars, cache, stats, now, lastOp, ret, ncalls, thrVars>>
persistVars == <<bm_file, bm_loaded, ld_results>>
bm25Vars == <<bm25, bm_call, bm_results, persistVars>>
storeVars == <<store, code_call, code_results>>
pipeVars == <<reranker, use_cache, ppc, retr, outcome, at_entry, nretr>>
asmVars == <<asm_call, asm_result>>
enhVars == <<eq_call, eq_result, asmVars>>
retrVars == <<bm25Vars, storeVars, pipeVars, enhVars>>

\* ---------------------------------------------------------------- bounds
MaxSizeBound == 2
MaxTime == 2
MaxCalls == 4
MaxThreadCalls == 3
MaxTopK == 3
MaxRetrieves == 2
MaxReplyLen == 4

\* ---------------------------------------------------------------- inputs
None == "None"
NoThread == "nobody"
Threads == {"t1", "t2"}

Queries == {"", "q1", "q2"}
Results == {"r1", "r2"}
Thresholds == {80}
TTLs == {1}

\* inputs of SpecDim: the embedding of "q3" has one dimension more
DimQueries == {"q1", "q2", "q3"}
DimResults == {"r1"}

\* inputs of the threads of SpecConc
ConcQueries == {"", "q1"}
ConcResults == {"r1"}
ConcSizes == {0, 1}
ConcThresholds == {80}

\* the embedding handed to get/put together with each query text
Embed(q) ==
    CASE q = ""   -> <<1, 0>>
      [] q = "q1" -> <<4, 3>>
      [] q = "q2" -> <<3, 4>>
      [] q = "q3" -> <<4, 3, 0>>
      [] q = "phi thu tuc 1.013133" -> <<1, 0>>
      [] q = "dieu kien 1.013133" -> <<3, 4>>
      [] q = "cac buoc ket hon" -> <<4, 3>>
      [] q = "trinh tu ket hon" -> <<3, 4>>
      [] q = "thu tuc 9.000001" -> <<0, 1>>
      [] q = "thoi gian ket hon" -> <<4, 3>>
      [] q = "luat ket hon" -> <<3, 4>>
      [] q = "dang ky ket hon nhu the nao" -> <<3, 4>>
      [] q = "dang ky ket hon" -> <<3, 4>>

Max(a, b) == IF a >= b THEN a ELSE b
Min(a, b) == IF a <= b THEN a ELSE b

\* ------------------------------------------------------------ CacheStats
CacheStats == [hits |-> 0, misses |-> 0, evictions |-> 0, expired |-> 0,
               total_queries |-> 0]

hit_rate(s) ==
    IF s.total_queries = 0 THEN 0 ELSE (s.hits * 100) \div s.total_queries

CacheEntry(q, e, r, t) ==
    [query |-> q, query_embedding |-> e, result |-> r, timestamp |-> t,
     last_accessed |-> t]

\* what a call hands back: get's result (or None), clear_expired's count,
\* get_stats' dictionary; the unused parts keep their defaults
NoSnapshot ==
    [max_size |-> 0, hits |-> 0, misses |-> 0, evictions |-> 0, expired |-> 0,
     total_queries |-> 0, hit_rate |-> 0, size |-> 0]

Returned(v, n, sn) == [value |-> v, removed |-> n, snapshot |-> sn]

ReturnValue(v) == Returned(v, 0, NoSnapshot)

\* --------------------------------------------------------- private methods
IsExpired_SinceLastAccess(entry, t) ==
    (t - entry.last_accessed) > ttl_seconds

IsExpired(entry, t) == (t - entry.timestamp) > ttl_seconds

Has(c, q) == \E i \in 1..Len(c) : c[i].query = q

IndexOf(c, q) == CHOOSE i \in 1..Len(c) : c[i].query = q

WithoutKey(c, q) == SelectSeq(c, LAMBDA en : en.query # q)

UpdateAccess_InPlace(c, q, t) ==
    [c EXCEPT ![IndexOf(c, q)].last_accessed = t]

UpdateAccess(c, q, t) ==
    Append(WithoutKey(c, q), [c[IndexOf(c, q)] EXCEPT !.last_accessed = t])

RemoveEntry(c, q) == IF Has(c, q) THEN WithoutKey(c, q) ELSE c

EvictLru(c, s) ==
    IF c # <<>>
    THEN [cache |-> Tail(c), stats |-> [s EXCEPT !.evictions = @ + 1]]
    ELSE [cache |-> c, stats |-> s]

Dot(v1, v2) ==
    LET RECURSIVE Sum(_)
        Sum(i) == IF i = 0 THEN 0 ELSE v1[i] * v2[i] + Sum(i - 1)
    IN Sum(Len(v1))

Norm(v) == LET n == Dot(v, v) IN CHOOSE r \in 0..n : r * r = n

CosineSimilarity(vec1, vec2) ==
    IF Len(vec1) # Len(vec2) THEN 0
    ELSE LET dot_product == Dot(vec1, vec2)
             norm1 == Norm(vec1)
             norm2 == Norm(vec2)
         IN IF norm1 = 0 \/ norm2 = 0 THEN 0
            ELSE Max(0, Min(100, (dot_product * 100) \div (norm1 * norm2)))

\* Python truth value of best_match (None and the empty string are false)
Truthy(k) == k # None /\ k # ""

\* ------------------------------------------------------------------- get
\* the loop over _cache.items(); yields <<best_match, best_similarity>>
RECURSIVE SemanticScan(_, _, _, _, _, _)
SemanticScan(c, emb, t, i, best_match, best_similarity) ==
    IF i > Len(c) THEN <<best_match, best_similarity>>
    ELSE IF IsExpired(c[i], t)
    THEN SemanticScan(c, emb, t, i + 1, best_match, best_similarity)
    ELSE LET similarity == CosineSimilarity(emb, c[i].query_embedding)
         IN IF similarity > best_similarity
            THEN SemanticScan(c, emb, t, i + 1, c[i].query, similarity)
            ELSE SemanticScan(c, emb, t, i + 1, best_match, best_similarity)

GetCount(s) == [s EXCEPT !.total_queries = @ + 1]

ExpiredMiss_NoMissCount(c, s, q) ==
    [cache |-> RemoveEntry(c, q),
     stats |-> [s EXCEPT !.expired = @ + 1],
     ret |-> ReturnValue(None)]

ExpiredMiss(c, s, q) ==
    [cache |-> RemoveEntry(c, q),
     stats |-> [s EXCEPT !.expired = @ + 1, !.misses = @ + 1],
     ret |-> ReturnValue(None)]

GetLookup(c, s, q, e, t) ==
    IF Has(c, q)
    THEN LET entry == c[IndexOf(c, q)]
         IN IF IsExpired(entry, t)
            THEN ExpiredMiss(c, s, q)
            ELSE [cache |-> UpdateAccess(c, q, t),
                  stats |-> [s EXCEPT !.hits = @ + 1],
                  ret |-> ReturnValue(entry.result)]
    ELSE LET best == SemanticScan(c, e, t, 1, None, 0)
             best_match == best[1]
             best_similarity == best[2]
         IN IF Truthy(best_match) /\ best_similarity >= similarity_threshold
            THEN [cache |-> UpdateAccess(c, best_match, t),
                  stats |-> [s EXCEPT !.hits = @ + 1],
                  ret |-> ReturnValue(c[IndexOf(c, best_match)].result)]
            ELSE [cache |-> c,
                  stats |-> [s EXCEPT !.misses = @ + 1],
                  ret |-> ReturnValue(None)]

\* ------------------------------------------------------------------- put
PutEvict_OffByOne(c, s, q) ==
    IF Len(c) > max_size /\ ~Has(c, q)
    THEN EvictLru(c, s)
    ELSE [cache |-> c, stats |-> s]

PutEvict(c, s, q) ==
    IF Len(c) >= max_size /\ ~Has(c, q)
    THEN EvictLru(c, s)
    ELSE [cache |-> c, stats |-> s]

PutInsert_Discard(c, q, e, r, t) == c

PutInsert_KeepExisting(c, q, e, r, t) ==
    IF Has(c, q) THEN c ELSE Append(c, CacheEntry(q, e, r, t))

PutInsert(c, q, e, r, t) ==
    Append(IF Has(c, q) THEN WithoutKey(c, q) ELSE c, CacheEntry(q, e, r, t))

\* ------------------------------------------------- clear / clear_expired
ClearAll_ResetStats(c, s) == [cache |-> <<>>, stats |-> CacheStats]

ClearAll(c, s) == [cache |-> <<>>, stats |-> s]

ClearExpired(c, s, t) ==
    LET expired_queries == SelectSeq(c, LAMBDA en : IsExpired(en, t))
    IN [cache |-> SelectSeq(c, LAMBDA en : ~IsExpired(en, t)),
        stats |-> [s EXCEPT !.expired = @ + Len(expired_queries)],
        ret |-> Returned(None, Len(expired_queries), NoSnapshot)]

\* ------------------------------------------------------------- get_stats
GetStats(c, s) ==
    [size |-> Len(c), max_size |-> max_size, hits |-> s.hits,
     misses |-> s.misses, hit_rate |-> hit_rate(s),
     evictions |-> s.evictions, expired |-> s.expired,
     total_queries |-> s.total_queries]

\* --------------------------------------- a whole operation, at time t
Apply(op, c, s, t) ==
    CASE op.op = "get" ->
            GetLookup(c, GetCount(s), op.query, op.emb, t)
      [] op.op = "put" ->
            LET ev == PutEvict(c, s, op.query)
            IN [cache |-> PutInsert(ev.cache, op.query, op.emb, op.result, t),
                stats |-> ev.stats, ret |-> ReturnValue(None)]
      [] op.op = "clear" ->
            LET cl == ClearAll(c, s)
            IN [cache |-> cl.cache, stats |-> cl.stats,
                ret |-> ReturnValue(None)]
      [] op.op = "clear_expired" -> ClearExpired(c, s, t)
      [] op.op = "get_stats" ->
            [cache |-> c, stats |-> s,
             ret |-> Returned(None, 0, GetStats(c, s))]

OpGet(q) == [query |-> q, result |-> None, emb |-> Embed(q), op |-> "get"]
OpPut(q, r) == [query |-> q, result |-> r, emb |-> Embed(q), op |-> "put"]
OpNoArg(name) == [query |-> None, result |-> None, emb |-> <<>>, op |-> name]
NoOp == OpNoArg("init")

\* saved: the cache and counters found by the thread that holds the lock;
\* call[t], tret[t]: the arguments and the return value of thread t's call
\* in progress (they end with the call)
NothingSaved == [cache |-> <<>>, stats |-> CacheStats]

\* ======================================================================
\* SimpleBM25 (src/src/retrieval/bm25_search.py).  A text is the sequence
\* of the words that text.lower() / re.sub / split() leave; scores are in
\* millionths.  Documents are numbered from 1 (doc_id + 1).
\* ======================================================================
VIETNAMESE_STOPWORDS == {"va", "cua", "co", "la"}

\* stands for a chunk field that is absent (dict.get gives None)
Absent == "<absent>"

\* a filter value: a single string or a list of strings
StrValue(s) == [kind |-> "str", str |-> s, list |-> <<>>]
ListValue(l) == [kind |-> "list", str |-> Absent, list |-> l]
NoFilters == <<>>

RECURSIVE SumSeq(_)
SumSeq(s) == IF s = <<>> THEN 0 ELSE Head(s) + SumSeq(Tail(s))

\* a stable sort of records [key, item] by decreasing key (list.sort with
\* reverse=True keeps the original order of equal keys)
StableSortDesc(s) ==
    LET rank == [i \in 1..Len(s) |->
                    Cardinality({j \in 1..Len(s) :
                                    \/ s[j].key > s[i].key
                                    \/ s[j].key = s[i].key /\ j < i}) + 1]
    IN [k \in 1..Len(s) |-> s[CHOOSE i \in 1..Len(s) : rank[i] = k]]

\* the first n elements (s[:n] for n >= 0)
Take(s, n) == SubSeq(s, 1, Min(n, Len(s)))

tokenize(text) ==
    SelectSeq(text, LAMBDA word : Len(word) > 1
                                  /\ word \notin VIETNAMESE_STOPWORDS)

Count(tokens, term) == Len(SelectSeq(tokens, LAMBDA w : w = term))

Terms(tokens) == {tokens[i] : i \in 1..Len(tokens)}

\* math.log(n / d) in thousandths, for n > d > 0:
\* ln x = 2 (z + z^3/3 + z^5/5 + ...), z = (x - 1) / (x + 1)
RECURSIVE LnSeries(_, _, _)
LnSeries(z, power, k) ==
    IF k > 15 THEN 0
    ELSE power \div k
         + LnSeries(z, (((power * z) \div 10000) * z) \div 10000, k + 2)

Ln(n, d) ==
    LET z == ((n - d) * 10000) \div (n + d)
    IN (2 * LnSeries(z, z, 1)) \div 10

\* idf = log((num_docs - df + 0.5) / (df + 0.5) + 1.0)
Idf(num_docs, df) == Ln(2 * num_docs + 2, 2 * df + 1)

NewBM25(chunks) ==
    [chunks |-> chunks, doc_lengths |-> <<>>, avg_doc_length |-> 0,
     num_docs |-> 0, idf_cache |-> <<>>, inverted_index |-> <<>>,
     is_built |-> FALSE]

\* build_index (for a non-empty chunk list)
BuildIndex(b) ==
    LET toks == [i \in 1..Len(b.chunks) |-> tokenize(b.chunks[i].content)]
        n == Len(b.chunks)
        lens == [i \in 1..n |-> Len(toks[i])]
        terms == UNION {Terms(toks[i]) : i \in 1..n}
        postings(term) ==
            SelectSeq([i \in 1..n |->
                          [doc_id |-> i, term_freq |-> Count(toks[i], term)]],
                      LAMBDA e : e.term_freq > 0)
    IN [chunks |-> b.chunks,
        doc_lengths |-> lens,
        avg_doc_length |-> (SumSeq(lens) * 1000) \div n,
        num_docs |-> n,
        idf_cache |-> [term \in terms |-> Idf(n, Len(postings(term)))],
        inverted_index |-> [term \in terms |-> postings(term)],
        is_built |-> TRUE]

\* one posting's contribution: idf * tf (k1 + 1) /
\*   (tf + k1 (1 - b + b doc_len / avg_doc_length)), k1 = 1.5, b = 0.75
TermScore(b, term, entry) ==
    LET tf == entry.term_freq
        doc_len == b.doc_lengths[entry.doc_id]
        numerator == tf * 2500
        denominator ==
            tf * 1000
            + (1500 * (250 + (750 * doc_len * 1000) \div b.avg_doc_length))
              \div 1000
    IN b.idf_cache[term] * ((numerator * 1000) \div denominator)

\* scores[doc_id] after the loop over query_terms (a repeated query term
\* counts each time)
DocScore(b, query_terms, doc) ==
    SumSeq([i \in 1..Len(query_terms) |->
        LET term == query_terms[i]
        IN IF term \notin DOMAIN b.inverted_index THEN 0
           ELSE SumSeq([j \in 1..Len(b.inverted_index[term]) |->
                    LET entry == b.inverted_index[term][j]
                    IN IF entry.doc_id = doc
                       THEN TermScore(b, term, entry) ELSE 0])])

\* chunk.get(key) != value
FieldDiffers(chunk, key, value) ==
    ~(key \in DOMAIN chunk /\ value.kind = "str" /\ chunk[key] = value.str)

FilterMatch(chunk, filters) ==
    \A key \in DOMAIN filters : ~FieldDiffers(chunk, key, filters[key])

BM25Result(chunk, score) ==
    [chunk_id |-> chunk.chunk_id, thu_tuc_id |-> chunk.thu_tuc_id,
     chunk_type |-> chunk.chunk_type, chunk_tier |-> chunk.chunk_tier,
     content |-> chunk.content, score |-> score, bm25_score |-> score,
     parent_chunk_id |-> chunk.parent_chunk_id]

\* search on a built index
BM25Search_NoPositiveCheck(b, query, top_k, filters) ==
    LET query_terms == tokenize(query)
        pairs == [d \in 1..b.num_docs |->
                     [key |-> DocScore(b, query_terms, d), item |-> d]]
        kept == SelectSeq(pairs,
                    LAMBDA p : FilterMatch(b.chunks[p.item], filters))
        ranked == Take(StableSortDesc(kept), top_k)
    IN IF query_terms = <<>> THEN <<>>
       ELSE [i \in 1..Len(ranked) |->
                BM25Result(b.chunks[ranked[i].item], ranked[i].key)]

BM25Search(b, query, top_k, filters) ==
    LET query_terms == tokenize(query)
        doc_score_pairs ==
            SelectSeq([d \in 1..b.num_docs |->
                          [key |-> DocScore(b, query_terms, d), item |-> d]],
                      LAMBDA p : p.key > 0)
        filtered_pairs ==
            SelectSeq(doc_score_pairs,
                      LAMBDA p : FilterMatch(b.chunks[p.item], filters))
        ranked == Take(StableSortDesc(filtered_pairs), top_k)
    IN IF query_terms = <<>> THEN <<>>
       ELSE [i \in 1..Len(ranked) |->
                BM25Result(b.chunks[ranked[i].item], ranked[i].key)]

\* save_index: the dictionary that is pickled (k1 and b are the fixed
\* 1.5 and 0.75 of TermScore); the chunk list is not part of it
SavedData(b) ==
    [doc_lengths |-> b.doc_lengths, avg_doc_length |-> b.avg_doc_length,
     num_docs |-> b.num_docs, idf_cache |-> b.idf_cache,
     inverted_index |-> b.inverted_index]

NoFile == [saved |-> FALSE, data |-> SavedData(NewBM25(<<>>))]

\* load_index on the object b: the pickled fields replace b's, b.chunks
\* stays what the constructor was given
LoadIndex(b, data) ==
    [chunks |-> b.chunks, doc_lengths |-> data.doc_lengths,
     avg_doc_length |-> data.avg_doc_length, num_docs |-> data.num_docs,
     idf_cache |-> data.idf_cache, inverted_index |-> data.inverted_index,
     is_built |-> TRUE]

\* the (doc_id, score) pairs with score > 0
ScoredPairs(b, query_terms) ==
    SelectSeq([d \in 1..b.num_docs |->
                  [key |-> DocScore(b, query_terms, d), item |-> d]],
              LAMBDA p : p.key > 0)

\* self.chunks[doc_id] of a pair that is looked up is out of range: every
\* pair when filters are given, the first top_k sorted pairs otherwise
LooksUp(pairs, top_k, filters) ==
    IF filters # NoFilters THEN pairs ELSE Take(StableSortDesc(pairs), top_k)

IndexError(b, looked_up) ==
    \E i \in 1..Len(looked_up) : looked_up[i].item > Len(b.chunks)

SearchRaised == [done |-> TRUE, raised |-> TRUE, results |-> <<>>]

NotSearched == [done |-> FALSE, raised |-> FALSE, results |-> <<>>]

\* search on any index object: raises when the index is not built or a
\* chunk is looked up that the object does not hold
SearchOutcome(b, query, top_k, filters) ==
    IF ~b.is_built THEN SearchRaised
    ELSE IF /\ tokenize(query) # <<>>
            /\ IndexError(b, LooksUp(ScoredPairs(b, tokenize(query)),
                                     top_k, filters))
    THEN SearchRaised
    ELSE [done |-> TRUE, raised |-> FALSE,
          results |-> BM25Search(b, query, top_k, filters)]

\* ======================================================================
\* The indexed chunks.  chunk_id is a number (the order of the ids),
\* content the words of the text, vector the stored embedding.
\* ======================================================================
Chunk(id, code, type, tier, content, vec, parent_chunk_id) ==
    [chunk_id |-> id, thu_tuc_id |-> code, chunk_type |-> type,
     chunk_tier |-> tier, content |-> content, vector |-> vec,
     parent_chunk_id |-> parent_chunk_id]

\* procedure 1.013133 with two children, procedure 2.002767 with one
SmallChunks ==
    << Chunk(1, "1.013133", "parent_overview", "parent",
             <<"thutuc", "ket", "hon">>, <<4, 3>>, 0),
       Chunk(2, "1.013133", "child_requirements", "child",
             <<"dieukien", "ket", "hon">>, <<3, 4>>, 1),
       Chunk(3, "1.013133", "child_fees_timing", "child",
             <<"phi", "va", "phi">>, <<1, 0>>, 1),
       Chunk(4, "2.002767", "parent_overview", "parent",
             <<"thutuc", "kinh", "doanh">>, <<3, 4>>, 0),
       Chunk(5, "2.002767", "child_process", "child",
             <<"buoc", "kinh", "doanh", "a">>, <<-1, 0>>, 4) >>

\* three procedures with a child_process chunk each (1.013133 has two
\* parent chunks, the child of 2.002767 names no parent) and six
\* child_legal chunks of a procedure that has no parent chunk
WideChunks ==
    << Chunk(1, "1.013133", "parent_overview", "parent",
             <<"thutuc", "ket", "hon">>, <<4, 3>>, 0),
       Chunk(2, "1.013133", "parent_overview", "parent",
             <<"thutuc", "ket", "hon", "b">>, <<3, 4>>, 0),
       Chunk(3, "1.013133", "child_process", "child",
             <<"buoc", "ket", "hon">>, <<4, 3>>, 2),
       Chunk(4, "2.002767", "parent_overview", "parent",
             <<"thutuc", "kinh", "doanh">>, <<3, 4>>, 0),
       Chunk(5, "2.002767", "child_process", "child",
             <<"buoc", "kinh", "doanh">>, <<3, 4>>, 0),
       Chunk(6, "3.000423", "parent_overview", "parent",
             <<"thutuc", "xay", "dung">>, <<1, 0>>, 0),
       Chunk(7, "3.000423", "child_process", "child",
             <<"buoc", "xay", "dung">>, <<1, 0>>, 6),
       Chunk(8, "9.000001", "child_legal", "child",
             <<"luat", "dat">>, <<1, 0>>, 0),
       Chunk(9, "9.000001", "child_legal", "child",
             <<"luat", "ket", "hon">>, <<3, 4>>, 0),
       Chunk(10, "9.000001", "child_legal", "child",
             <<"luat", "thue">>, <<-1, 0>>, 0),
       Chunk(11, "9.000001", "child_legal", "child",
             <<"luat", "nha">>, <<0, 1>>, 0),
       Chunk(12, "9.000001", "child_legal", "child",
             <<"luat", "hon">>, <<4, 3>>, 0),
       Chunk(13, "9.000001", "child_legal", "child",
             <<"luat", "xe">>, <<0, -1>>, 0) >>

\* procedure 1.013133 with seven children
LargeChunks ==
    << Chunk(1, "1.013133", "parent_overview", "parent",
             <<"thutuc", "ket", "hon">>, <<4, 3>>, 0),
       Chunk(2, "1.013133", "child_requirements", "child",
             <<"dieukien", "ket", "hon">>, <<3, 4>>, 1),
       Chunk(3, "1.013133", "child_fees_timing", "child",
             <<"phi", "va", "phi">>, <<1, 0>>, 1),
       Chunk(4, "1.013133", "child_process", "child",
             <<"buoc", "ket", "hon">>, <<4, 3>>, 1),
       Chunk(5, "1.013133", "child_process", "child",
             <<"buoc", "hoso">>, <<3, 4>>, 1),
       Chunk(6, "1.013133", "child_documents", "child",
             <<"hoso", "ket", "hon">>, <<1, 0>>, 1),
       Chunk(7, "1.013133", "child_legal", "child",
             <<"luat">>, <<0, 1>>, 1),
       Chunk(8, "1.013133", "child_documents", "child",
             <<"hoso">>, <<-1, 0>>, 1),
       Chunk(9, "2.002767", "parent_overview", "parent",
             <<"thutuc", "kinh", "doanh">>, <<3, 4>>, 0),
       Chunk(10, "2.002767", "child_process", "child",
             <<"buoc", "kinh", "doanh", "a">>, <<-1, 0>>, 9) >>

\* ======================================================================
\* QdrantVectorStore (src/src/retrieval/vector_store.py).  The collection
\* is the sequence of its points in id order; a point is a Chunk (payload
\* and vector).  A condition maps a payload key to MatchValue (StrValue)
\* or MatchAny (ListValue).
\* ======================================================================
ScrollLimit == 100

One == 1000000

InList(x, l) == \E i \in 1..Len(l) : l[i] = x

\* FieldCondition(key, match) on a point's payload
ConditionHolds(point, key, match) ==
    IF match.kind = "str" THEN point[key] = match.str
    ELSE InList(point[key], match.list)

\* client.scroll(scroll_filter=Filter(must=...), limit=...)[0]
Scroll(points, must, limit) ==
    Take(SelectSeq(points,
             LAMBDA p : \A key \in DOMAIN must :
                           ConditionHolds(p, key, must[key])),
         limit)

\* a chunk_type_filter: None, a string or a list of strings
NoTypeFilter == [kind |-> "none", str |-> Absent, list |-> <<>>]

\* Python truth value of a chunk_type_filter
FilterGiven(f) ==
    \/ f.kind = "str" /\ f.str # ""
    \/ f.kind = "list" /\ f.list # <<>>

FormattedResult(point) ==
    [chunk_id |-> point.chunk_id, ma_thu_tuc |-> point.thu_tuc_id,
     chunk_type |-> point.chunk_type, chunk_tier |-> point.chunk_tier,
     content |-> point.content, score |-> One,
     parent_chunk_id |-> point.parent_chunk_id]

\* formatted_results.sort(key=(chunk_tier != "parent", chunk_id))
SortParentsFirst(results) ==
    LET keyed == [i \in 1..Len(results) |->
                    [key |-> 0 - ((IF results[i].chunk_tier # "parent"
                                   THEN 1000 ELSE 0) + results[i].chunk_id),
                     item |-> results[i]]]
        sorted == StableSortDesc(keyed)
    IN [i \in 1..Len(sorted) |-> sorted[i].item]

\* search_by_code; client_ok = FALSE: the scroll calls raise
SearchByCode(points, thu_tuc_id, include_parent, include_children, chunk_type_filter, client_ok) ==
    LET by_code == [thu_tuc_id |-> StrValue(thu_tuc_id)]
        parent_points ==
            IF FilterGiven(chunk_type_filter) /\ include_parent
            THEN Scroll(points,
                        [thu_tuc_id |-> StrValue(thu_tuc_id),
                         chunk_tier |-> StrValue("parent")], ScrollLimit)
            ELSE <<>>
        child_points ==
            IF ~include_children THEN <<>>
            ELSE IF FilterGiven(chunk_type_filter)
            THEN Scroll(points,
                        [thu_tuc_id |-> StrValue(thu_tuc_id),
                         chunk_tier |-> StrValue("child"),
                         chunk_type |-> chunk_type_filter], ScrollLimit)
            ELSE Scroll(points,
                        [thu_tuc_id |-> StrValue(thu_tuc_id),
                         chunk_tier |-> StrValue("child")], ScrollLimit)
        all_points ==
            IF ~FilterGiven(chunk_type_filter)
            THEN Scroll(points, by_code, ScrollLimit)
            ELSE parent_points \o child_points
        formatted_results ==
            [i \in 1..Len(all_points) |-> FormattedResult(all_points[i])]
        tiers ==
            SelectSeq(formatted_results,
                LAMBDA r : /\ include_parent \/ r.chunk_tier # "parent"
                           /\ include_children \/ r.chunk_tier # "child")
    IN IF client_ok THEN SortParentsFirst(tiers) ELSE <<>>

NoCodeCall ==
    [thu_tuc_id |-> Absent, include_parent |-> TRUE,
     include_children |-> TRUE, chunk_type_filter |-> NoTypeFilter,
     client_ok |-> TRUE]

NotReturned == [returned |-> FALSE, chunks |-> <<>>]

NoSearch == [query |-> <<>>, top_k |-> 0, filters |-> NoFilters]

\* ======================================================================
\* Intent-based context settings (src/src/retrieval/context_settings.py)
\* ======================================================================
ContextConfig(mode, chunks, max_descendants, max_siblings) ==
    [mode |-> mode, chunks |-> chunks, max_descendants |-> max_descendants,
     max_siblings |-> max_siblings, include_parents |-> TRUE]

INTENT_CONTEXT_MAPPING ==
    [documents    |-> ContextConfig("specific", 2, 5, 2),
     fees         |-> ContextConfig("specific", 2, 3, 1),
     location     |-> ContextConfig("specific", 2, 3, 1),
     requirements |-> ContextConfig("comparison", 2, 2, 3),
     process      |-> ContextConfig("list", 2, 40, 5),
     legal        |-> ContextConfig("explanation", 3, 4, 3),
     timeline     |-> ContextConfig("explanation", 3, 4, 3),
     overview     |-> ContextConfig("general", 3, 5, 2)]

get_context_config(intent) ==
    IF intent \in DOMAIN INTENT_CONTEXT_MAPPING
    THEN INTENT_CONTEXT_MAPPING[intent]
    ELSE INTENT_CONTEXT_MAPPING["overview"]

\* ======================================================================
\* Query enhancer (src/src/retrieval/query_enhancer.py).  A question is a
\* string; Words gives the words of its text.
\* ======================================================================
QFee == "phi thu tuc 1.013133"
QReq == "dieu kien 1.013133"
QSteps == "cac buoc ket hon"
QUnknown == "thu tuc 9.000001"
QStepsReworded == "trinh tu ket hon"
QTime == "thoi gian ket hon"
QLegal == "luat ket hon"
QHow == "dang ky ket hon nhu the nao"
QHowRewritten == "dang ky ket hon"

Words(text) ==
    CASE text = QFee -> <<"phi", "thutuc", "1.013133">>
      [] text = QReq -> <<"dieukien", "1.013133">>
      [] text = QSteps -> <<"buoc", "ket", "hon">>
      [] text = QUnknown -> <<"thutuc", "9.000001">>
      [] text = QStepsReworded -> <<"trinhtu", "ket", "hon">>
      [] text = QTime -> <<"thoigian", "ket", "hon">>
      [] text = QLegal -> <<"luat", "ket", "hon">>
      [] text = QHow -> <<"dangky", "ket", "hon", "nhuthenao">>
      [] text = QHowRewritten -> <<"dangky", "ket", "hon">>
      [] OTHER -> <<>>

\* the words that match PROCEDURE_CODE_PATTERN
CodeShaped == {"1.013133", "2.002767", "3.000423", "9.000001"}

extract_procedure_code(question) ==
    LET found == SelectSeq(Words(question), LAMBDA w : w \in CodeShaped)
    IN IF found = <<>> THEN None ELSE Head(found)

\* INTENT_MAPPING, in the order of the dictionary
IntentOrder ==
    <<"documents", "requirements", "process", "legal", "timeline", "fees",
      "location">>

INTENT_MAPPING ==
    [documents    |-> {"hoso", "giayto"},
     requirements |-> {"dieukien", "yeucau"},
     process      |-> {"buoc", "trinhtu", "quytrinh"},
     legal        |-> {"luat", "phaply"},
     timeline     |-> {"thoigian", "baolau"},
     fees         |-> {"phi", "lephi"},
     location     |-> {"odau", "diachi"}]

INTENT_EXCLUSIONS == [documents |-> {"thoigian", "baolau", "thongbao"}]

\* what a call of the LLM comes to: the request fails, or the reply is a
\* text with no JSON array in it, or a text that holds a JSON array
ErrorReply == [kind |-> "error", text |-> "", items |-> <<>>]
TextReply(text) == [kind |-> "text", text |-> text, items |-> <<>>]
ArrayReply(items) == [kind |-> "array", text |-> "", items |-> items]

\* the answer of the LLM asked for the intent (used when no keyword
\* matches); an answer that is no intent name gives "overview"
LLMIntent(question) == "overview"

IntentScore(question, intent) ==
    LET words == Terms(Words(question))
    IN IF /\ intent \in DOMAIN INTENT_EXCLUSIONS
          /\ INTENT_EXCLUSIONS[intent] \cap words # {}
       THEN 0
       ELSE Cardinality(INTENT_MAPPING[intent] \cap words)

\* the intents with a keyword in the question, in dictionary order
KeywordIntents(question) ==
    SelectSeq(IntentOrder, LAMBDA i : IntentScore(question, i) > 0)

\* max(intent_scores, key=intent_scores.get): the first of the best
BestIntent(question, scored) ==
    scored[CHOOSE k \in 1..Len(scored) :
              /\ \A j \in 1..Len(scored) :
                    IntentScore(question, scored[j])
                       <= IntentScore(question, scored[k])
              /\ \A j \in 1..(k - 1) :
                    IntentScore(question, scored[j])
                       < IntentScore(question, scored[k])]

DetectIntent(question, scored, reply) ==
    IF scored # <<>> THEN BestIntent(question, scored)
    ELSE IF reply.kind = "text"
            /\ reply.text \in DOMAIN INTENT_CONTEXT_MAPPING
         THEN reply.text ELSE "overview"

detect_intent(question) ==
    DetectIntent(question, KeywordIntents(question),
                 TextReply(LLMIntent(question)))

\* generate_query_variations on a reply of the LLM: the first
\* num_variations elements of the array the reply holds, or else the
\* question three times (its replace() calls find nothing to replace)
VariationsFrom(question, num_variations, reply) ==
    IF reply.kind = "array" THEN Take(reply.items, num_variations)
    ELSE Take(<<question, question, question>>, num_variations)

\* the reply the pipeline's enhancer gets when asked for variations
LLMVariations(question) ==
    IF question = QSteps THEN ArrayReply(<<QSteps, QStepsReworded, QSteps>>)
    ELSE ErrorReply

generate_query_variations(question, num_variations) ==
    VariationsFrom(question, num_variations, LLMVariations(question))

\* _rewrite_query: the filler words are removed; a question left with
\* fewer than three words is returned as it was
FillerWords == {"thi", "co", "voi", "sovoi", "nhuthenao", "bangcachnao"}

Texts == {QFee, QReq, QSteps, QUnknown, QStepsReworded, QTime, QLegal, QHow, QHowRewritten}

TextOf(words) == CHOOSE text \in Texts : Words(text) = words

Simplified(question, kept) ==
    IF Len(kept) < 3 THEN question ELSE TextOf(kept)

rewrite_query(question) ==
    Simplified(question,
               SelectSeq(Words(question), LAMBDA w : w \notin FillerWords))

intent_to_chunk_type ==
    [documents    |-> StrValue("child_documents"),
     requirements |-> StrValue("child_requirements"),
     process      |-> StrValue("child_process"),
     timeline     |-> ListValue(<<"child_process", "child_fees_timing">>),
     legal        |-> StrValue("child_legal")]

QueryInfo(original_query, intent, query_variations, exact_code) ==
    [original_query |-> original_query,
     intent |-> intent,
     query_variations |-> query_variations,
     filters |->
        IF intent # "overview" /\ intent \in DOMAIN intent_to_chunk_type
        THEN intent_to_chunk_type[intent] ELSE NoTypeFilter,
     exact_code |-> exact_code]

VariationsWith(question, query_for_processing, reply) ==
    IF query_for_processing # question
    THEN <<query_for_processing>> \o VariationsFrom(question, 2, reply)
    ELSE VariationsFrom(question, 3, reply)

Variations(question, query_for_processing) ==
    VariationsWith(question, query_for_processing, LLMVariations(question))

\* enhance_query when the LLM answers intent_reply and variations_reply
EnhanceWith(question, intent_reply, variations_reply) ==
    QueryInfo(question,
              DetectIntent(question, KeywordIntents(question), intent_reply),
              VariationsWith(question, rewrite_query(question),
                             variations_reply),
              extract_procedure_code(question))

enhance_query(question) ==
    EnhanceWith(question, TextReply(LLMIntent(question)),
                LLMVariations(question))

NoEnhanceCall ==
    [called |-> FALSE, question |-> "", intent_reply |-> ErrorReply,
     variations_reply |-> ErrorReply]

NoQueryInfo ==
    [original_query |-> "", intent |-> "overview", query_variations |-> <<>>,
     filters |-> NoTypeFilter, exact_code |-> None]

\* ======================================================================
\* Embedder (src/src/retrieval/embedding_model.py) and semantic search
\* (QdrantVectorStore.search, src/src/retrieval/vector_store.py)
\* ======================================================================
\* the vector encode() puts in place of an embedding it could not obtain
ZeroVector == <<0, 0>>

encode(text, embedder_ok) == IF embedder_ok THEN Embed(text) ELSE ZeroVector

\* the score of Distance.COSINE, in millionths, between -One and One
CosineOf(dot_product, norm1, norm2) ==
    IF norm1 = 0 \/ norm2 = 0 THEN 0
    ELSE (dot_product * One) \div (norm1 * norm2)

CosineScore(vec1, vec2) == CosineOf(Dot(vec1, vec2), Norm(vec1), Norm(vec2))

\* a retrieved chunk; a key the dictionary does not hold reads as 0
\* (cross_tier_match: as Absent)
Doc(point, score, bm25_score) ==
    [chunk_id |-> point.chunk_id, ma_thu_tuc |-> point.thu_tuc_id,
     chunk_type |-> point.chunk_type, chunk_tier |-> point.chunk_tier,
     content |-> point.content, score |-> score, bm25_score |-> bm25_score,
     rrf_score |-> 0, final_score |-> 0,
     parent_chunk_id |-> point.parent_chunk_id,
     cross_tier_match |-> Absent, original_rank |-> 0]

NoHits == [raised |-> FALSE, hits |-> <<>>]
SearchFailed == [raised |-> TRUE, hits |-> <<>>]

\* the items of a sequence of records [key, item]
Items(keyed) == [i \in 1..Len(keyed) |-> keyed[i].item]

\* the points a query_filter lets through: chunk_tier = tier and, when
\* given, chunk_type = chunk_type
Matching(points, tier, chunk_type) ==
    SelectSeq(points, LAMBDA p :
        /\ p.chunk_tier = tier
        /\ chunk_type.kind = "str" => p.chunk_type = chunk_type.str)

Scored(matching, query_embedding) ==
    [i \in 1..Len(matching) |->
        [key |-> CosineScore(query_embedding, matching[i].vector),
         item |-> matching[i]]]

Hits(ranked) ==
    [i \in 1..Len(ranked) |-> Doc(ranked[i].item, ranked[i].key, 0)]

\* search(query_embedding, top_k, filters); MatchValue takes no list, and
\* a failure of the client is not caught
Search(points, query_embedding, top_k, tier, chunk_type, client_ok) ==
    IF chunk_type.kind = "list" \/ ~client_ok THEN SearchFailed
    ELSE [raised |-> FALSE,
          hits |-> Hits(Take(StableSortDesc(
                       Scored(Matching(points, tier, chunk_type),
                              query_embedding)), top_k))]

\* ======================================================================
\* Stages 3-8 (src/src/retrieval/retrieval_pipeline.py)
\* ======================================================================
top_k_parent == 5
top_k_child == 100
RrfK == 60

\* the keys of a dictionary filled in the order of s
Distinct(s) ==
    SelectSeq([i \in 1..Len(s) |->
                  [v |-> s[i], first |-> \A j \in 1..(i - 1) : s[j] # s[i]]],
              LAMBDA e : e.first)

\* the chunk_type filter of the first search of a variation
StrictFilter(filters) == IF FilterGiven(filters) THEN filters ELSE NoTypeFilter

\* no hit under the chunk_type filter: the search is made again without it
OrRelaxed(strict, points, query_emb, client_ok) ==
    IF ~strict.raised /\ strict.hits = <<>>
    THEN Search(points, query_emb, top_k_child, "child", NoTypeFilter,
                client_ok)
    ELSE strict

ChildSearch(points, query_info, query_variation, env) ==
    OrRelaxed(Search(points, encode(query_variation, env.embedder_ok),
                     top_k_child, "child", StrictFilter(query_info.filters),
                     env.store_ok),
              points, encode(query_variation, env.embedder_ok), env.store_ok)

\* cross-tier filtering of the hits of one query variation
Marked(children, match) ==
    [i \in 1..Len(children) |->
        [children[i] EXCEPT !.cross_tier_match = match]]

KeepTop_KeepNothing(filtered_children, child_results) ==
    Marked(filtered_children, "True")

KeepTop(filtered_children, child_results) ==
    IF filtered_children = <<>> /\ child_results # <<>>
    THEN Marked(Take(child_results, 5), "False")
    ELSE Marked(filtered_children, "True")

CrossTier(child_results, parent_results) ==
    KeepTop(SelectSeq(child_results, LAMBDA c :
                \E i \in 1..Len(parent_results) :
                    parent_results[i].ma_thu_tuc = c.ma_thu_tuc),
            child_results)

\* the parents and one list of children per distinct variation
Found(parents, searches) ==
    [raised |-> \/ parents.raised
                \/ \E i \in 1..Len(searches) : searches[i].raised,
     parent_results |-> parents.hits,
     child_results |->
        [i \in 1..Len(searches) |->
            [is_bm25 |-> FALSE,
             results |-> CrossTier(searches[i].hits, parents.hits)]]]

ChildSearches(points, query_info, variations, env) ==
    [i \in 1..Len(variations) |->
        ChildSearch(points, query_info, variations[i].v, env)]

hierarchical_retrieve(points, query_info, env) ==
    Found(Search(points,
                 encode(query_info.original_query, env.embedder_ok),
                 top_k_parent, "parent", NoTypeFilter, env.store_ok),
          ChildSearches(points, query_info,
                        Distinct(query_info.query_variations), env))

\* Stage 5: the "bm25" entry of the merged dictionary, when there is one
Bm25Source(b, bm25_chunks) ==
    IF b.is_built /\ bm25_chunks # <<>>
    THEN << [is_bm25 |-> TRUE,
             results |-> [i \in 1..Len(bm25_chunks) |->
                             Doc(bm25_chunks[i], bm25_chunks[i].score,
                                 bm25_chunks[i].bm25_score)]] >>
    ELSE <<>>

bm25_results(b, question, query_info) ==
    Bm25Source(b,
        BM25Search(b, Words(question), top_k_child,
                   IF FilterGiven(query_info.filters)
                   THEN [chunk_tier |-> StrValue("child"),
                         chunk_type |-> query_info.filters]
                   ELSE [chunk_tier |-> StrValue("child")]))

\* Stage 6
RrfScore(sources, doc_id) ==
    LET RECURSIVE Sum(_, _)
        Sum(s, rank) ==
            IF s > Len(sources) THEN 0
            ELSE IF rank > Len(sources[s].results) THEN Sum(s + 1, 1)
            ELSE (IF sources[s].results[rank].chunk_id = doc_id
                  THEN IF sources[s].is_bm25
                       THEN ((One \div (RrfK + rank)) * 12) \div 10
                       ELSE One \div (RrfK + rank)
                  ELSE 0) + Sum(s, rank + 1)
    IN Sum(1, 1)

Flatten(sources) ==
    LET RECURSIVE Cat(_)
        Cat(s) == IF s > Len(sources) THEN <<>>
                  ELSE sources[s].results \o Cat(s + 1)
    IN Cat(1)

\* the documents of fused_scores, in the order they were first met
FirstSeen(all) ==
    Items(SelectSeq([i \in 1..Len(all) |->
                        [key |-> \A j \in 1..(i - 1) :
                                    all[j].chunk_id # all[i].chunk_id,
                         item |-> all[i]]],
                    LAMBDA e : e.key))

Fused(sources, first) ==
    [i \in 1..Len(first) |->
        [key |-> RrfScore(sources, first[i].chunk_id), item |-> first[i]]]

WithRrf(ranked_docs) ==
    [i \in 1..Len(ranked_docs) |->
        [ranked_docs[i].item EXCEPT !.rrf_score = ranked_docs[i].key]]

reciprocal_rank_fusion(sources) ==
    WithRrf(StableSortDesc(Fused(sources, FirstSeen(Flatten(sources)))))

\* Stage 7
Clamp01(x) == Min(Max(x, 0), One)

EnsembleScore(doc) ==
    (55 * Clamp01(doc.score) + 35 * Clamp01(doc.bm25_score)
        + 10 * (One \div 2)) \div 100

FallbackScore(doc) == (6 * doc.rrf_score + 4 * doc.score) \div 10

Rescored(documents, with_reranker) ==
    [i \in 1..Len(documents) |->
        [key |-> IF with_reranker THEN EnsembleScore(documents[i])
                 ELSE FallbackScore(documents[i]),
         item |-> documents[i]]]

\* rerank_simple copies result.rank, which rerank has set to the place of
\* the result in the sorted list; the fallback sets no original_rank
WithFinal(reranked, with_reranker) ==
    [i \in 1..Len(reranked) |->
        [reranked[i].item EXCEPT !.final_score = reranked[i].key,
                                 !.original_rank =
                                     IF with_reranker THEN i ELSE 0]]

rerank_with_score_fusion(documents, top_k, with_reranker) ==
    WithFinal(Take(StableSortDesc(Rescored(documents, with_reranker)),
                   top_k), with_reranker)

\* Stage 8
ByFinalScore(chunks) ==
    Items(StableSortDesc([i \in 1..Len(chunks) |->
              [key |-> chunks[i].final_score, item |-> chunks[i]]]))

OfProcedure(child_results, proc_id) ==
    SelectSeq(child_results, LAMBDA c : c.ma_thu_tuc = proc_id)

BestScore(proc_chunks) ==
    CHOOSE best \in {proc_chunks[i].final_score : i \in 1..Len(proc_chunks)} :
        \A i \in 1..Len(proc_chunks) : proc_chunks[i].final_score <= best

Grouped(child_results, ids) ==
    [i \in 1..Len(ids) |->
        [key |-> BestScore(OfProcedure(child_results, ids[i].v)),
         item |-> [proc_id |-> ids[i].v,
                   proc_chunks |-> OfProcedure(child_results, ids[i].v)]]]

\* chunks_by_procedure, sorted by the best score of each procedure
SortedProcedures(child_results) ==
    Items(StableSortDesc(
        Grouped(child_results,
                Distinct([i \in 1..Len(child_results) |->
                             child_results[i].ma_thu_tuc]))))

Selected(top_procedures, config) ==
    LET RECURSIVE Sel(_)
        Sel(i) ==
            IF i > Len(top_procedures) THEN <<>>
            ELSE Take(ByFinalScore(top_procedures[i].proc_chunks),
                      config.max_descendants) \o Sel(i + 1)
    IN Sel(1)

\* the best chunk of each procedure after the top ones, until there are
\* max_siblings of them
BestOfEach(rest, config) ==
    IF config.max_siblings > 0
    THEN [i \in 1..Min(config.max_siblings, Len(rest)) |->
             ByFinalScore(rest[i].proc_chunks)[1]]
    ELSE <<>>

Siblings(sorted_procedures, config) ==
    BestOfEach(SubSeq(sorted_procedures,
                      Min(config.chunks, Len(sorted_procedures)) + 1,
                      Len(sorted_procedures)),
               config)

AverageTwice(scores) == (2 * SumSeq(scores)) \div Len(scores)

Confidence(all_chunks) ==
    IF all_chunks # <<>>
    THEN Min(One, AverageTwice([i \in 1..Len(all_chunks) |->
                                   all_chunks[i].final_score]))
    ELSE 0

\* the first parent of parent_results that satisfies Is (0: none)
FirstParent(parent_results, Is(_)) ==
    IF \E p \in 1..Len(parent_results) : Is(parent_results[p])
    THEN parent_results[CHOOSE p \in 1..Len(parent_results) :
            /\ Is(parent_results[p])
            /\ \A o \in 1..(p - 1) : ~Is(parent_results[o])].chunk_id
    ELSE 0

\* parent_lookup.get(parent_id), or else the first parent of the procedure
ResolveParent_ByProcedureOnly(parent_results, top_child) ==
    FirstParent(parent_results,
                LAMBDA p : p.ma_thu_tuc = top_child.ma_thu_tuc)

ResolveParent(parent_results, top_child) ==
    IF FirstParent(parent_results,
                   LAMBDA p : p.chunk_id = top_child.parent_chunk_id) # 0
    THEN top_child.parent_chunk_id
    ELSE FirstParent(parent_results,
                     LAMBDA p : p.ma_thu_tuc = top_child.ma_thu_tuc)

\* the parent whose overview the block of selected[i] carries (0: none):
\* the block of the first chunk of a procedure carries it
OverviewOf(parent_results, selected, i, config) ==
    IF /\ config.include_parents
       /\ \A j \in 1..(i - 1) :
             selected[j].ma_thu_tuc # selected[i].ma_thu_tuc
    THEN ResolveParent(parent_results, selected[i])
    ELSE 0

\* the context is the sequence of its blocks: the chunk of the block, the
\* parent whose overview the block carries and whether it is a
\* [RELATED CHUNK] block
Blocks(parent_results, selected, sibling_chunks, config) ==
    [context |->
        [i \in 1..(Len(selected) + Len(sibling_chunks)) |->
            IF i <= Len(selected)
            THEN [chunk |-> selected[i].chunk_id,
                  overview |-> OverviewOf(parent_results, selected, i,
                                          config),
                  related |-> FALSE]
            ELSE [chunk |-> sibling_chunks[i - Len(selected)].chunk_id,
                  overview |-> 0, related |-> TRUE]],
     all_chunks |-> selected \o sibling_chunks,
     confidence |-> Confidence(selected \o sibling_chunks)]

Assembled(parent_results, sorted_procedures, config) ==
    Blocks(parent_results,
           Selected(Take(sorted_procedures, config.chunks), config),
           Siblings(sorted_procedures, config), config)

assemble_context(parent_results, child_results, config) ==
    Assembled(parent_results, SortedProcedures(child_results), config)

\* ======================================================================
\* HierarchicalRetrievalPipeline.retrieve
\* (src/src/retrieval/retrieval_pipeline.py)
\* ======================================================================
\* a RetrievalResult; a metadata key the result does not hold is Absent
\* (search_type, thu_tuc_id) or empty (query_variations)
RetrievalResult(query, intent, retrieved_chunks, context, confidence, metadata) ==
    [query |-> query, intent |-> intent,
     retrieved_chunks |-> retrieved_chunks, context |-> context,
     confidence |-> confidence, metadata |-> metadata]

NoResult ==
    RetrievalResult("", "", <<>>, <<>>, 0,
                    [search_type |-> Absent, thu_tuc_id |-> Absent,
                     num_parent_chunks |-> 0, num_child_chunks |-> 0,
                     query_variations |-> <<>>])

\* what the services of one invocation do: encode() obtains an embedding,
\* the scroll and the query of the Qdrant client succeed, cache.get and
\* cache.put return
Env(embedder_ok, scroll_ok, store_ok, get_ok, put_ok) ==
    [embedder_ok |-> embedder_ok, scroll_ok |-> scroll_ok,
     store_ok |-> store_ok, get_ok |-> get_ok, put_ok |-> put_ok]

AllWell == Env(TRUE, TRUE, TRUE, TRUE, TRUE)

\* Stage 0: the truth value of cached_result, from the counters of get
CacheHit_Never(s, out) == FALSE

CacheHit(s, out) == out.stats.hits = s.hits + 1

\* Stage 2: the lookup by procedure code
exact_lookup(points, query_info, env) ==
    SearchByCode(points, query_info.exact_code, TRUE, TRUE,
                 query_info.filters, env.scroll_ok)

\* a chunk of search_by_code read by _assemble_context
AsDoc(r) ==
    [chunk_id |-> r.chunk_id, ma_thu_tuc |-> r.ma_thu_tuc,
     chunk_type |-> r.chunk_type, chunk_tier |-> r.chunk_tier,
     content |-> r.content, score |-> r.score, bm25_score |-> 0,
     rrf_score |-> 0, final_score |-> 0,
     parent_chunk_id |-> r.parent_chunk_id,
     cross_tier_match |-> Absent, original_rank |-> 0]

OfTier(results, tier) == SelectSeq(results, LAMBDA r : r.chunk_tier = tier)

AsDocs(results) == [i \in 1..Len(results) |-> AsDoc(results[i])]

\* the context of the exact-code path, under the limits of the intent
ExactAssembled(query_info, exact_results) ==
    assemble_context(AsDocs(OfTier(exact_results, "parent")),
                     AsDocs(OfTier(exact_results, "child")),
                     get_context_config(query_info.intent))

ExactResult(question, query_info, exact_results, context, confidence) ==
    RetrievalResult(question, query_info.intent, exact_results, context,
        confidence,
        [search_type |-> "exact_code_match",
         thu_tuc_id |-> query_info.exact_code,
         num_parent_chunks |-> Len(OfTier(exact_results, "parent")),
         num_child_chunks |-> Len(OfTier(exact_results, "child")),
         query_variations |-> <<>>])

ExactMatchResult_AssembledConfidence(question, query_info, exact_results) ==
    ExactResult(question, query_info, exact_results,
                ExactAssembled(query_info, exact_results).context,
                ExactAssembled(query_info, exact_results).confidence)

ExactMatchResult(question, query_info, exact_results) ==
    ExactResult(question, query_info, exact_results,
                ExactAssembled(query_info, exact_results).context, One)

\* Stages 5-8 on what Stages 3-4 found
HybridOf(question, query_info, found, reranked_results, assembled) ==
    IF found.raised THEN [raised |-> TRUE, result |-> NoResult]
    ELSE [raised |-> FALSE,
          result |->
             RetrievalResult(question, query_info.intent, reranked_results,
                 assembled.context, assembled.confidence,
                 [search_type |-> Absent, thu_tuc_id |-> Absent,
                  num_parent_chunks |-> Len(found.parent_results),
                  num_child_chunks |-> Len(reranked_results),
                  query_variations |-> query_info.query_variations])]

Reranked(question, query_info, found, reranked_results) ==
    HybridOf(question, query_info, found, reranked_results,
             assemble_context(found.parent_results, reranked_results,
                              get_context_config(query_info.intent)))

Fusion(question, query_info, found, bm25_source, top_k, with_reranker) ==
    Reranked(question, query_info, found,
             rerank_with_score_fusion(
                 reciprocal_rank_fusion(found.child_results \o bm25_source),
                 top_k, with_reranker))

\* Stages 3-8; raised when a search of the vector store raised
HybridResult(points, b, with_reranker, question, query_info, top_k, env) ==
    Fusion(question, query_info,
           hierarchical_retrieve(points, query_info, env),
           bm25_results(b, question, query_info), top_k, with_reranker)

\* Stage 1.5: the value of top_k_final the later stages use
OverrideTopK_KeepCallers(top_k, query_info) == top_k

OverrideTopK(top_k, query_info) ==
    get_context_config(query_info.intent).chunks

\* Stage 2 and after: the exact-code result when the lookup found chunks,
\* the hybrid result otherwise
Routed(points, b, with_reranker, question, query_info, top_k, env, exact_results) ==
    IF exact_results # <<>>
    THEN [raised |-> FALSE,
          result |-> ExactMatchResult(question, query_info, exact_results)]
    ELSE HybridResult(points, b, with_reranker, question, query_info,
                      OverrideTopK(top_k, query_info), env)

Understood(points, b, with_reranker, question, query_info, top_k, env) ==
    Routed(points, b, with_reranker, question, query_info, top_k, env,
           IF query_info.exact_code # None
           THEN exact_lookup(points, query_info, env) ELSE <<>>)

\* the result of the stages after the cache check
Stages1To8(points, b, with_reranker, question, top_k, env) ==
    Understood(points, b, with_reranker, question, enhance_query(question),
               top_k, env)

\* a whole call of retrieve on cache c with counters s at time t; conf is
\* [store, bm25, reranker, use_cache]
Outcome(kind, result, c, s) ==
    [outcome |-> kind, result |-> result, cache |-> c, stats |-> s]

\* cache.put(question, emb, result) on the cache evicted has made room in
Stored(evicted, question, emb, result, t) ==
    Outcome("returned", result,
            PutInsert(evicted.cache, question, emb, result, t),
            evicted.stats)

AfterMiss(conf, c, s, t, question, emb, env, made) ==
    IF made.raised THEN Outcome("raised", NoResult, c, s)
    ELSE IF ~conf.use_cache THEN Outcome("returned", made.result, c, s)
    ELSE IF ~env.put_ok THEN Outcome("raised", NoResult, c, s)
    ELSE Stored(PutEvict(c, s, question), question, emb, made.result, t)

AfterGet(conf, t, question, emb, env, got, hit, made) ==
    IF hit THEN Outcome("returned", got.ret.value, got.cache, got.stats)
    ELSE AfterMiss(conf, got.cache, got.stats, t, question, emb, env, made)

Checked(conf, c, s, t, question, emb, env, got, made) ==
    IF ~conf.use_cache THEN AfterMiss(conf, c, s, t, question, emb, env, made)
    ELSE IF ~env.get_ok THEN Outcome("raised", NoResult, c, s)
    ELSE AfterGet(conf, t, question, emb, env, got,
                  CacheHit(GetCount(s), got), made)

RetrieveAll(conf, c, s, t, question, top_k, env) ==
    Checked(conf, c, s, t, question, encode(question, env.embedder_ok), env,
            GetLookup(c, GetCount(s), question,
                      encode(question, env.embedder_ok), t),
            Stages1To8(conf.store, conf.bm25, conf.reranker, question,
                       top_k, env))

NoEmbedding == <<>>

\* the locals of a call of retrieve; gets and puts count its calls of
\* cache.get and cache.put
Locals(question, top_k_final, env) ==
    [question |-> question, top_k_final |-> top_k_final, env |-> env,
     query_embedding |-> NoEmbedding, query_info |-> NoQueryInfo,
     result |-> NoResult, gets |-> 0, puts |-> 0]

NoLocals == Locals("", 0, AllWell)

\* what a call finds and is given
AtEntry(c, s, top_k_final) ==
    [cache |-> c, stats |-> s, top_k_final |-> top_k_final]

NoEntry == AtEntry(<<>>, CacheStats, 0)

\* no call of _assemble_context on its own
NoAssembleCall ==
    [called |-> FALSE, parent_results |-> <<>>, child_results |-> <<>>,
     config |-> get_context_config("overview")]

NotAssembled == [context |-> <<>>, all_chunks |-> <<>>, confidence |-> 0]

\* no pipeline, no call of retrieve made
InitNoEnhance ==
    /\ eq_call = NoEnhanceCall
    /\ eq_result = NoQueryInfo
    /\ asm_call = NoAssembleCall
    /\ asm_result = NotAssembled

InitNoPipe ==
    /\ InitNoEnhance
    /\ reranker = FALSE
    /\ use_cache = FALSE
    /\ ppc = "idle"
    /\ retr = NoLocals
    /\ outcome = "none"
    /\ at_entry = NoEntry
    /\ nretr = 0

\* ------------------------------------------------------------------ Init
InitCache ==
    /\ max_size \in 0..MaxSizeBound
    /\ ttl_seconds \in TTLs
    /\ similarity_threshold \in Thresholds
    /\ cache = <<>>
    /\ stats = CacheStats
    /\ now = 0
    /\ lastOp = NoOp
    /\ ret = ReturnValue(None)
    /\ ncalls = 0
    /\ lock = [owner |-> NoThread, count |-> 0]
    /\ pc = [t \in Threads |-> "idle"]
    /\ call = [t \in Threads |-> NoOp]
    /\ tret = [t \in Threads |-> ReturnValue(None)]
    /\ saved = NothingSaved

\* no BM25 index, no search made
InitNoPersist ==
    /\ bm_file = NoFile
    /\ bm_loaded = NewBM25(<<>>)
    /\ ld_results = NotSearched

InitNoBM25 ==
    /\ InitNoPersist
    /\ bm25 = NewBM25(<<>>)
    /\ bm_call = NoSearch
    /\ bm_results = <<>>

\* no collection, no lookup made
InitNoStore ==
    /\ store = <<>>
    /\ code_call = NoCodeCall
    /\ code_results = NotReturned

Init == InitCache /\ InitNoBM25 /\ InitNoStore /\ InitNoPipe

\* --------------------------------------------- atomic operations (Spec)
Get ==
    /\ ncalls < MaxCalls
    /\ \E q \in Queries :
         LET out == Apply(OpGet(q), cache, stats, now)
         IN /\ cache' = out.cache
            /\ stats' = out.stats
            /\ ret' = out.ret
            /\ lastOp' = OpGet(q)
    /\ ncalls' = ncalls + 1
    /\ UNCHANGED retrVars
    /\ UNCHANGED <<cfgVars, now, thrVars>>

Put ==
    /\ ncalls < MaxCalls
    /\ \E q \in Queries, r \in Results :
         LET out == Apply(OpPut(q, r), cache, stats, now)
         IN /\ cache' = out.cache
            /\ stats' = out.stats
            /\ ret' = out.ret
            /\ lastOp' = OpPut(q, r)
    /\ ncalls' = ncalls + 1
    /\ UNCHANGED retrVars
    /\ UNCHANGED <<cfgVars, now, thrVars>>

Clear ==
    /\ ncalls < MaxCalls
    /\ LET out == Apply(OpNoArg("clear"), cache, stats, now)
       IN /\ cache' = out.cache
          /\ stats' = out.stats
          /\ ret' = out.ret
          /\ lastOp' = OpNoArg("clear")
    /\ ncalls' = ncalls + 1
    /\ UNCHANGED retrVars
    /\ UNCHANGED <<cfgVars, now, thrVars>>

ClearExpiredOp ==
    /\ ncalls < MaxCalls
    /\ LET out == Apply(OpNoArg("clear_expired"), cache, stats, now)
       IN /\ cache' = out.cache
          /\ stats' = out.stats
          /\ ret' = out.ret
          /\ lastOp' = OpNoArg("clear_expired")
    /\ ncalls' = ncalls + 1
    /\ UNCHANGED retrVars
    /\ UNCHANGED <<cfgVars, now, thrVars>>

GetStatsOp ==
    /\ ncalls < MaxCalls
    /\ LET out == Apply(OpNoArg("get_stats"), cache, stats, now)
       IN /\ cache' = out.cache
          /\ stats' = out.stats
          /\ ret' = out.ret
          /\ lastOp' = OpNoArg("get_stats")
    /\ ncalls' = ncalls + 1
    /\ UNCHANGED retrVars
    /\ UNCHANGED <<cfgVars, now, thrVars>>

Tick ==
    /\ now < MaxTime
    /\ now' = now + 1
    /\ UNCHANGED retrVars
    /\ UNCHANGED <<cfgVars, cache, stats, lastOp, ret, ncalls, thrVars>>

\* get and put with embeddings of two dimensions (SpecDim)
GetAnyDim ==
    /\ ncalls < MaxCalls
    /\ \E q \in DimQueries :
         \E out \in {Apply(OpGet(q), cache, stats, now)} :
            /\ cache' = out.cache
            /\ stats' = out.stats
            /\ ret' = out.ret
            /\ lastOp' = OpGet(q)
    /\ ncalls' = ncalls + 1
    /\ UNCHANGED retrVars
    /\ UNCHANGED <<cfgVars, now, thrVars>>

PutAnyDim ==
    /\ ncalls < MaxCalls
    /\ \E q \in DimQueries, r \in DimResults :
         \E out \in {Apply(OpPut(q, r), cache, stats, now)} :
            /\ cache' = out.cache
            /\ stats' = out.stats
            /\ ret' = out.ret
            /\ lastOp' = OpPut(q, r)
    /\ ncalls' = ncalls + 1
    /\ UNCHANGED retrVars
    /\ UNCHANGED <<cfgVars, now, thrVars>>

NextDim == GetAnyDim \/ PutAnyDim \/ Tick

SpecDim == Init /\ [][NextDim]_vars

Next == Get \/ Put \/ Clear \/ ClearExpiredOp \/ GetStatsOp \/ Tick

Spec == Init /\ [][Next]_vars

\* ======================================================================
\* Threads (SpecConc): "with self._lock:" is Acquire ... Release around the
\* statements of each operation.
\* ======================================================================
ThreadOps ==
    {OpGet(q) : q \in ConcQueries}
    \cup {OpPut(q, r) : q \in ConcQueries, r \in ConcResults}
    \cup {OpNoArg("clear"), OpNoArg("clear_expired"), OpNoArg("get_stats")}

FirstStep(name) ==
    CASE name = "get" -> "get_count"
      [] name = "put" -> "put_evict"
      [] name = "clear" -> "clear"
      [] name = "clear_expired" -> "clear_expired"
      [] name = "get_stats" -> "get_stats"

LockAvailable_Always(l, t) == TRUE

LockAvailable(l, t) == l.owner = NoThread \/ l.owner = t

LockAcquire(l, t) == [owner |-> t, count |-> l.count + 1]

LockRelease_KeepOwner(l, t) == [owner |-> l.owner, count |-> l.count - 1]

LockRelease(l, t) ==
    [owner |-> IF l.count = 1 THEN NoThread ELSE l.owner,
     count |-> l.count - 1]

InitConc ==
    /\ Init
    /\ max_size \in ConcSizes
    /\ similarity_threshold \in ConcThresholds

CallOp(t) ==
    /\ pc[t] = "idle"
    /\ ncalls < MaxThreadCalls
    /\ \E op \in ThreadOps : call' = [call EXCEPT ![t] = op]
    /\ pc' = [pc EXCEPT ![t] = "acquire"]
    /\ ncalls' = ncalls + 1
    /\ UNCHANGED retrVars
    /\ UNCHANGED <<cfgVars, cache, stats, now, lastOp, ret, lock, tret, saved>>

Acquire(t) ==
    /\ pc[t] = "acquire"
    /\ LockAvailable(lock, t)
    /\ lock' = LockAcquire(lock, t)
    /\ saved' = [cache |-> cache, stats |-> stats]
    /\ pc' = [pc EXCEPT ![t] = FirstStep(call[t].op)]
    /\ UNCHANGED retrVars
    /\ UNCHANGED <<cfgVars, cache, stats, now, lastOp, ret, ncalls, call, tret>>

GetCountStep(t) ==
    /\ pc[t] = "get_count"
    /\ stats' = GetCount(stats)
    /\ pc' = [pc EXCEPT ![t] = "get_lookup"]
    /\ UNCHANGED retrVars
    /\ UNCHANGED <<cfgVars, cache, now, lastOp, ret, ncalls, lock, call, tret,
                   saved>>

GetLookupStep(t) ==
    /\ pc[t] = "get_lookup"
    /\ LET out == GetLookup(cache, stats, call[t].query, call[t].emb, now)
       IN /\ cache' = out.cache
          /\ stats' = out.stats
          /\ tret' = [tret EXCEPT ![t] = out.ret]
    /\ pc' = [pc EXCEPT ![t] = "release"]
    /\ UNCHANGED retrVars
    /\ UNCHANGED <<cfgVars, now, lastOp, ret, ncalls, lock, call, saved>>

PutEvictStep(t) ==
    /\ pc[t] = "put_evict"
    /\ LET ev == PutEvict(cache, stats, call[t].query)
       IN /\ cache' = ev.cache
          /\ stats' = ev.stats
    /\ pc' = [pc EXCEPT ![t] = "put_insert"]
    /\ UNCHANGED retrVars
    /\ UNCHANGED <<cfgVars, now, lastOp, ret, ncalls, lock, call, tret, saved>>

PutInsertStep(t) ==
    /\ pc[t] = "put_insert"
    /\ cache' = PutInsert(cache, call[t].query, call[t].emb, call[t].result,
                          now)
    /\ tret' = [tret EXCEPT ![t] = ReturnValue(None)]
    /\ pc' = [pc EXCEPT ![t] = "release"]
    /\ UNCHANGED retrVars
    /\ UNCHANGED <<cfgVars, stats, now, lastOp, ret, ncalls, lock, call, saved>>

ClearStep(t) ==
    /\ pc[t] = "clear"
    /\ LET cl == ClearAll(cache, stats)
       IN /\ cache' = cl.cache
          /\ stats' = cl.stats
    /\ tret' = [tret EXCEPT ![t] = ReturnValue(None)]
    /\ pc' = [pc EXCEPT ![t] = "release"]
    /\ UNCHANGED retrVars
    /\ UNCHANGED <<cfgVars, now, lastOp, ret, ncalls, lock, call, saved>>

ClearExpiredStep(t) ==
    /\ pc[t] = "clear_expired"
    /\ LET out == ClearExpired(cache, stats, now)
       IN /\ cache' = out.cache
          /\ stats' = out.stats
          /\ tret' = [tret EXCEPT ![t] = out.ret]
    /\ pc' = [pc EXCEPT ![t] = "release"]
    /\ UNCHANGED retrVars
    /\ UNCHANGED <<cfgVars, now, lastOp, ret, ncalls, lock, call, saved>>

GetStatsStep(t) ==
    /\ pc[t] = "get_stats"
    /\ tret' = [tret EXCEPT ![t] = Returned(None, 0, GetStats(cache, stats))]
    /\ pc' = [pc EXCEPT ![t] = "release"]
    /\ UNCHANGED retrVars
    /\ UNCHANGED <<cfgVars, cache, stats, now, lastOp, ret, ncalls, lock, call,
                   saved>>

Release(t) ==
    /\ pc[t] = "release"
    /\ lock' = LockRelease(lock, t)
    /\ saved' = NothingSaved
    /\ call' = [call EXCEPT ![t] = NoOp]
    /\ tret' = [tret EXCEPT ![t] = ReturnValue(None)]
    /\ pc' = [pc EXCEPT ![t] = "idle"]
    /\ UNCHANGED retrVars
    /\ UNCHANGED <<cfgVars, cache, stats, now, lastOp, ret, ncalls>>

\* the steps a thread takes by itself once its call has been made
ThreadStep(t) ==
    \/ Acquire(t)
    \/ GetCountStep(t)
    \/ GetLookupStep(t)
    \/ PutEvictStep(t)
    \/ PutInsertStep(t)
    \/ ClearStep(t)
    \/ ClearExpiredStep(t)
    \/ GetStatsStep(t)
    \/ Release(t)

NextConc ==
    \/ \E t \in Threads : CallOp(t)
    \/ \E t \in Threads : ThreadStep(t)
    \/ Tick

SpecConc == InitConc /\ [][NextConc]_vars

\* a running thread is scheduled again: weak fairness of each thread's steps
SpecConcFair == SpecConc /\ \A t \in Threads : WF_vars(ThreadStep(t))

\* ======================================================================
\* SimpleBM25 as a state machine (SpecBM25): build_index, then searches
\* ======================================================================
Corpora ==
    { SmallChunks, LargeChunks, SubSeq(SmallChunks, 3, 3),
      <<Chunk(1, "1.013133", "parent_overview", "parent", <<"va", "a">>,
              <<1, 0>>, 0)>> }

BM25Queries ==
    { <<>>, <<"va", "a">>, <<"phi">>, <<"ket", "hon", "buoc">>,
      <<"hoso", "hoso", "luat">> }

BM25Filters ==
    { NoFilters,
      [chunk_tier |-> StrValue("child")],
      [chunk_tier |-> StrValue("child"),
       chunk_type |-> StrValue("child_process")],
      [chunk_tier |-> StrValue("child"),
       chunk_type |-> ListValue(<<"child_process", "child_fees_timing">>)],
      [linh_vuc |-> StrValue("ho tich")] }

InitBM25 ==
    /\ InitCache
    /\ max_size = 1
    /\ \E chunks \in Corpora : bm25 = NewBM25(chunks)
    /\ InitNoPersist
    /\ bm_call = NoSearch
    /\ bm_results = <<>>
    /\ InitNoStore
    /\ InitNoPipe

BuildIndexOp ==
    /\ ~bm25.is_built
    /\ bm25.chunks # <<>>
    /\ bm25' = BuildIndex(bm25)
    /\ UNCHANGED <<cacheVars, storeVars, pipeVars, enhVars, persistVars, bm_call, bm_results>>

SearchOp ==
    /\ bm25.is_built
    /\ \E query \in BM25Queries, top_k \in 0..MaxTopK,
          filters \in BM25Filters :
         /\ bm_call' = [query |-> query, top_k |-> top_k,
                        filters |-> filters]
         /\ bm_results' = BM25Search(bm25, query, top_k, filters)
    /\ UNCHANGED <<cacheVars, storeVars, pipeVars, enhVars, persistVars, bm25>>

NextBM25 == BuildIndexOp \/ SearchOp

SpecBM25 == InitBM25 /\ [][NextBM25]_vars

\* ======================================================================
\* save_index / load_index (SpecPersist): the index bm25 is built and
\* saved; a second object, constructed without chunks (the constructor's
\* default) or with the same chunks, loads the file; both are searched
\* ======================================================================
SaveIndexOp ==
    /\ bm_file' = [saved |-> TRUE, data |-> SavedData(bm25)]
    /\ UNCHANGED <<cacheVars, storeVars, pipeVars, enhVars, bm25, bm_call,
                   bm_results, bm_loaded, ld_results>>

LoadIndexOp ==
    /\ bm_file.saved
    /\ \E chunks \in {<<>>, bm25.chunks} :
          bm_loaded' = LoadIndex(NewBM25(chunks), bm_file.data)
    /\ UNCHANGED <<cacheVars, storeVars, pipeVars, enhVars, bm25, bm_call,
                   bm_results, bm_file, ld_results>>

SearchBothOp ==
    /\ bm25.is_built
    /\ bm_loaded.is_built
    /\ \E query \in BM25Queries, top_k \in 0..MaxTopK,
          filters \in BM25Filters :
         /\ bm_call' = [query |-> query, top_k |-> top_k,
                        filters |-> filters]
         /\ bm_results' = BM25Search(bm25, query, top_k, filters)
         /\ ld_results' = SearchOutcome(bm_loaded, query, top_k, filters)
    /\ UNCHANGED <<cacheVars, storeVars, pipeVars, enhVars, bm25, bm_file,
                   bm_loaded>>

NextPersist == BuildIndexOp \/ SaveIndexOp \/ LoadIndexOp \/ SearchBothOp

SpecPersist == InitBM25 /\ [][NextPersist]_vars

\* ======================================================================
\* search_by_code as a state machine (SpecByCode)
\* ======================================================================
\* a procedure with one parent and ManyChildren child_process chunks
ManyChildren == 101

ManyChunks ==
    [i \in 1..(ManyChildren + 1) |->
        IF i = 1
        THEN Chunk(1, "3.000423", "parent_overview", "parent",
                   <<"thutuc">>, <<1, 0>>, 0)
        ELSE Chunk(i, "3.000423", "child_process", "child",
                   <<"buoc">>, <<1, 0>>, 1)]

Stores == {SmallChunks, LargeChunks, ManyChunks}

Codes == {"1.013133", "2.002767", "3.000423", "9.000001"}

TypeFilters ==
    { NoTypeFilter, StrValue("child_requirements"),
      StrValue("child_process"),
      ListValue(<<"child_process", "child_fees_timing">>),
      ListValue(<<>>) }

CodeCalls ==
    [thu_tuc_id : Codes, include_parent : BOOLEAN,
     include_children : BOOLEAN, chunk_type_filter : TypeFilters,
     client_ok : BOOLEAN]

\* the collection and the arguments of the lookup
InitByCode ==
    /\ InitCache
    /\ max_size = 1
    /\ InitNoBM25
    /\ store \in Stores
    /\ code_call \in CodeCalls
    /\ code_results = NotReturned
    /\ InitNoPipe

SearchByCodeOp ==
    /\ ~code_results.returned
    /\ code_results' =
          [returned |-> TRUE,
           chunks |-> SearchByCode(store, code_call.thu_tuc_id,
                                   code_call.include_parent,
                                   code_call.include_children,
                                   code_call.chunk_type_filter,
                                   code_call.client_ok)]
    /\ UNCHANGED <<cacheVars, bm25Vars, pipeVars, enhVars, store, code_call>>

NextByCode == SearchByCodeOp

SpecByCode == InitByCode /\ [][NextByCode]_vars

\* ======================================================================
\* SpecPipe: calls of retrieve, one at a time, each split at its stages.
\* ppc is the stage the call in progress has reached, retr its locals;
\* at_entry holds the cache and the counters the call found and the
\* top_k_final it was given.
\* ======================================================================
Questions == {QFee, QReq, QSteps, QUnknown, QTime, QLegal}
TopKs == {1, 5}
Envs ==
    {AllWell,
     Env(FALSE, TRUE, TRUE, TRUE, TRUE), Env(TRUE, FALSE, TRUE, TRUE, TRUE),
     Env(TRUE, TRUE, FALSE, TRUE, TRUE), Env(TRUE, TRUE, TRUE, FALSE, TRUE),
     Env(TRUE, TRUE, TRUE, TRUE, FALSE)}

\* the pipelines: collection, chunks of the BM25 index (none: no index),
\* reranker configured, cache configured
PipelineConfig(points, indexed, with_reranker, with_cache) ==
    [store |-> points,
     bm25 |-> IF indexed THEN BuildIndex(NewBM25(points))
              ELSE NewBM25(<<>>),
     reranker |-> with_reranker, use_cache |-> with_cache]

PipelineConfigs ==
    {PipelineConfig(SmallChunks, TRUE, TRUE, TRUE),
     PipelineConfig(LargeChunks, TRUE, FALSE, TRUE),
     PipelineConfig(SmallChunks, FALSE, FALSE, FALSE),
     PipelineConfig(SmallChunks, TRUE, TRUE, FALSE),
     PipelineConfig(WideChunks, TRUE, TRUE, FALSE)}

Conf ==
    [store |-> store, bm25 |-> bm25, reranker |-> reranker,
     use_cache |-> use_cache]

InitPipe ==
    /\ InitCache
    /\ InitNoPersist
    /\ InitNoEnhance
    /\ max_size = 1
    /\ bm_call = NoSearch
    /\ bm_results = <<>>
    /\ code_call = NoCodeCall
    /\ code_results = NotReturned
    /\ \E conf \in PipelineConfigs :
          /\ store = conf.store
          /\ bm25 = conf.bm25
          /\ reranker = conf.reranker
          /\ use_cache = conf.use_cache
    /\ ppc = "idle"
    /\ retr = NoLocals
    /\ outcome = "none"
    /\ at_entry = NoEntry
    /\ nretr = 0

pipeFixed ==
    <<cfgVars, now, lastOp, ret, ncalls, thrVars, bm25Vars, storeVars,
      enhVars, reranker, use_cache>>

\* retrieve(question, top_k_final=k)
Retrieve ==
    /\ ppc = "idle"
    /\ nretr < MaxRetrieves
    /\ \E q \in Questions, k \in TopKs, e \in Envs :
          /\ retr' = Locals(q, k, e)
          /\ at_entry' = AtEntry(cache, stats, k)
    /\ ppc' = "stage0"
    /\ nretr' = nretr + 1
    /\ outcome' = "none"
    /\ UNCHANGED <<cache, stats, pipeFixed>>

Stage0CacheCheck ==
    /\ ppc = "stage0"
    /\ LET emb == encode(retr.question, retr.env.embedder_ok)
           got == GetLookup(cache, GetCount(stats), retr.question, emb, now)
       IN IF ~use_cache
          THEN /\ ppc' = "stage1"
               /\ UNCHANGED <<cache, stats, retr, outcome>>
          ELSE IF ~retr.env.get_ok
          THEN /\ ppc' = "ended"
               /\ outcome' = "raised"
               /\ retr' = [retr EXCEPT !.query_embedding = emb,
                                       !.gets = @ + 1]
               /\ UNCHANGED <<cache, stats>>
          ELSE /\ cache' = got.cache
               /\ stats' = got.stats
               /\ IF CacheHit(GetCount(stats), got)
                  THEN /\ retr' = [retr EXCEPT !.query_embedding = emb,
                                               !.result = got.ret.value,
                                               !.gets = @ + 1]
                       /\ outcome' = "returned"
                       /\ ppc' = "ended"
                  ELSE /\ retr' = [retr EXCEPT !.query_embedding = emb,
                                               !.gets = @ + 1]
                       /\ ppc' = "stage1"
                       /\ UNCHANGED outcome
    /\ UNCHANGED <<at_entry, nretr, pipeFixed>>

Stage1QueryUnderstanding ==
    /\ ppc = "stage1"
    /\ \E query_info \in {enhance_query(retr.question)} :
          /\ retr' = [retr EXCEPT
                         !.query_info = query_info,
                         !.top_k_final = OverrideTopK(@, query_info)]
          /\ ppc' = IF query_info.exact_code # None THEN "stage2"
                    ELSE "stage3"
    /\ UNCHANGED <<cache, stats, outcome, at_entry, nretr, pipeFixed>>

Stage2ExactMatch ==
    /\ ppc = "stage2"
    /\ \E exact_results \in {exact_lookup(store, retr.query_info, retr.env)} :
          IF exact_results # <<>>
          THEN /\ retr' = [retr EXCEPT !.result =
                              ExactMatchResult(retr.question, retr.query_info,
                                               exact_results)]
               /\ ppc' = "put"
          ELSE /\ ppc' = "stage3"
               /\ UNCHANGED retr
    /\ UNCHANGED <<cache, stats, outcome, at_entry, nretr, pipeFixed>>

Stage3To8Hybrid ==
    /\ ppc = "stage3"
    /\ \E made \in {HybridResult(store, bm25, reranker, retr.question,
                                 retr.query_info, retr.top_k_final,
                                 retr.env)} :
          IF made.raised
          THEN /\ outcome' = "raised"
               /\ ppc' = "ended"
               /\ UNCHANGED retr
          ELSE /\ retr' = [retr EXCEPT !.result = made.result]
               /\ ppc' = "put"
               /\ UNCHANGED outcome
    /\ UNCHANGED <<cache, stats, at_entry, nretr, pipeFixed>>

\* "Cache the result" and return it
CacheResult ==
    /\ ppc = "put"
    /\ ppc' = "ended"
    /\ LET emb == IF retr.query_embedding = NoEmbedding
                  THEN encode(retr.question, retr.env.embedder_ok)
                  ELSE retr.query_embedding
           evicted == PutEvict(cache, stats, retr.question)
       IN IF ~use_cache
          THEN /\ outcome' = "returned"
               /\ UNCHANGED <<cache, stats, retr>>
          ELSE IF ~retr.env.put_ok
          THEN /\ outcome' = "raised"
               /\ retr' = [retr EXCEPT !.query_embedding = emb,
                                       !.result = NoResult,
                                       !.puts = @ + 1]
               /\ UNCHANGED <<cache, stats>>
          ELSE /\ outcome' = "returned"
               /\ retr' = [retr EXCEPT !.query_embedding = emb,
                                       !.puts = @ + 1]
               /\ cache' = PutInsert(evicted.cache, retr.question, emb,
                                     retr.result, now)
               /\ stats' = evicted.stats
    /\ UNCHANGED <<at_entry, nretr, pipeFixed>>

\* the call is abandoned between two stages
Abort ==
    /\ ppc \in {"stage0", "stage1", "stage2", "stage3", "put"}
    /\ ppc' = "ended"
    /\ outcome' = "aborted"
    /\ retr' = [retr EXCEPT !.result = NoResult]
    /\ UNCHANGED <<cache, stats, at_entry, nretr, pipeFixed>>

\* the caller has the outcome; the locals of the call are gone
EndOfCall ==
    /\ ppc = "ended"
    /\ ppc' = "idle"
    /\ retr' = NoLocals
    /\ outcome' = "none"
    /\ at_entry' = NoEntry
    /\ UNCHANGED <<cache, stats, nretr, pipeFixed>>

\* time passes between two calls
BetweenCalls ==
    /\ ppc = "idle"
    /\ now < MaxTime
    /\ now' = now + 1
    /\ UNCHANGED <<cfgVars, cache, stats, lastOp, ret, ncalls, thrVars>>
    /\ UNCHANGED retrVars

NextPipe ==
    \/ Retrieve
    \/ BetweenCalls
    \/ Stage0CacheCheck
    \/ Stage1QueryUnderstanding
    \/ Stage2ExactMatch
    \/ Stage3To8Hybrid
    \/ CacheResult
    \/ Abort
    \/ EndOfCall

SpecPipe == InitPipe /\ [][NextPipe]_vars

\* ======================================================================
\* enhance_query as a state machine (SpecEnhance): one call at a time, on
\* any question and any outcome of the two LLM calls it depends on
\* ======================================================================
EnhanceQuestions == Questions \cup {QHow}

RECURSIVE SeqsUpTo(_, _)
SeqsUpTo(pool, n) ==
    IF n = 0 THEN {<<>>}
    ELSE SeqsUpTo(pool, n - 1)
            \cup {Append(t, x) : t \in SeqsUpTo(pool, n - 1), x \in pool}

IntentReplies ==
    {ErrorReply, TextReply("process"), TextReply("timeline"),
     TextReply("khong ro")}

VariationReplies ==
    {ErrorReply, TextReply("khong ro")}
       \cup {ArrayReply(items) :
                items \in SeqsUpTo({QSteps, QStepsReworded}, MaxReplyLen)}

EnhanceOp ==
    /\ ~eq_call.called
    /\ \E question \in EnhanceQuestions, intent_reply \in IntentReplies,
          variations_reply \in VariationReplies :
         /\ eq_call' = [called |-> TRUE, question |-> question,
                        intent_reply |-> intent_reply,
                        variations_reply |-> variations_reply]
         /\ eq_result' = EnhanceWith(question, intent_reply,
                                     variations_reply)
    /\ UNCHANGED <<cacheVars, bm25Vars, storeVars, pipeVars, asmVars>>

\* the caller has the descriptor
EnhanceReturn ==
    /\ eq_call.called
    /\ eq_call' = NoEnhanceCall
    /\ eq_result' = NoQueryInfo
    /\ UNCHANGED <<cacheVars, bm25Vars, storeVars, pipeVars, asmVars>>

NextEnhance == EnhanceOp \/ EnhanceReturn

SpecEnhance == Init /\ [][NextEnhance]_vars

\* ======================================================================
\* _assemble_context on its own (SpecAssemble)
\* ======================================================================
\* the final scores Stage 7 may have given to the children of WideChunks:
\* distinct ones with a tie, none (the exact-code path), increasing ones
FinalScores ==
    { [i \in 1..Len(WideChunks) |->
          CASE i = 3 -> 900000 [] i = 5 -> 800000 [] i = 7 -> 700000
            [] i = 9 -> 950000 [] OTHER -> 600000],
      [i \in 1..Len(WideChunks) |-> 0],
      [i \in 1..Len(WideChunks) |-> i * 50000] }

AssembleChildIds == {3, 5, 7, 8, 9, 10}

\* the chosen chunks of WideChunks as retrieved chunks, in the order of
\* their ids or in the opposite order
Retrieved(ids, descending, final_scores) ==
    LET in_order ==
            SelectSeq([i \in 1..Len(WideChunks) |->
                          [Doc(WideChunks[i], 0, 0)
                              EXCEPT !.final_score = final_scores[i]]],
                      LAMBDA d : d.chunk_id \in ids)
    IN IF descending
       THEN [i \in 1..Len(in_order) |-> in_order[Len(in_order) + 1 - i]]
       ELSE in_order

AssembleParents == {{}, {1}, {4, 6}, {1, 2, 4, 6}}

\* the configurations of the intents, and one without parents
AssembleConfigs ==
    {INTENT_CONTEXT_MAPPING[intent] : intent \in DOMAIN INTENT_CONTEXT_MAPPING}
        \cup {[get_context_config("overview") EXCEPT !.include_parents = FALSE]}

AssembleOp ==
    /\ ~asm_call.called
    /\ \E ids \in SUBSET AssembleChildIds, parent_ids \in AssembleParents,
          descending \in BOOLEAN, final_scores \in FinalScores,
          config \in AssembleConfigs :
         \E child_results \in {Retrieved(ids, descending, final_scores)},
            parent_results \in {Retrieved(parent_ids, descending,
                                          final_scores)} :
            /\ asm_call' = [called |-> TRUE, config |-> config,
                            parent_results |-> parent_results,
                            child_results |-> child_results]
            /\ asm_result' = assemble_context(parent_results, child_results,
                                              config)
    /\ UNCHANGED <<cacheVars, bm25Vars, storeVars, pipeVars, eq_call,
                   eq_result>>

\* the caller has the context
AssembleReturn ==
    /\ asm_call.called
    /\ asm_call' = NoAssembleCall
    /\ asm_result' = NotAssembled
    /\ UNCHANGED <<cacheVars, bm25Vars, storeVars, pipeVars, eq_call,
                   eq_result>>

NextAssemble == AssembleOp \/ AssembleReturn

SpecAssemble == Init /\ [][NextAssemble]_vars

\* ======================================================================
\* Properties of the atomic operations (checked under Spec)
\* ======================================================================
GetStep == lastOp'.op = "get" /\ ncalls' = ncalls + 1
PutStep == lastOp'.op = "put" /\ ncalls' = ncalls + 1

Keys(c) == {c[i].query : i \in 1..Len(c)}
Age(en, t) == t - en.timestamp
Live(c, t) == {i \in 1..Len(c) : Age(c[i], t) <= ttl_seconds}

\* C1: hits + misses = total_queries in every state; a get adds exactly 1
\* to total_queries and exactly 1 to exactly one of hits and misses; no
\* other operation changes any of the three counters.
C1_HitsPlusMisses ==
    [][ /\ stats'.hits + stats'.misses = stats'.total_queries
        /\ IF GetStep
           THEN /\ stats'.total_queries = stats.total_queries + 1
                /\ \/ /\ stats'.hits = stats.hits + 1
                      /\ stats'.misses = stats.misses
                   \/ /\ stats'.hits = stats.hits
                      /\ stats'.misses = stats.misses + 1
           ELSE /\ stats'.total_queries = stats.total_queries
                /\ stats'.hits = stats.hits
                /\ stats'.misses = stats.misses ]_vars

C1_Witness ==
    /\ lastOp.op = "get"
    /\ stats.hits >= 1
    /\ stats.misses >= 2
    /\ stats.expired >= 1

\* C2: with max_size >= 1 the number of stored entries never exceeds
\* max_size.
C2_SizeBounded == max_size >= 1 => Len(cache) <= max_size

C2_Witness ==
    /\ max_size >= 1
    /\ lastOp.op = "put"
    /\ Len(cache) = max_size
    /\ stats.evictions >= 1

\* C3: with max_size = 0 no entry is ever stored and every get returns
\* none.
C3_CapacityZeroNeverStores ==
    max_size = 0 =>
        /\ Len(cache) = 0
        /\ lastOp.op = "get" => ret.value = None

\* C4: entries are ordered by last access, least recent first; a put of a
\* new key into a full (non-empty) cache removes exactly the head entry and
\* adds 1 to evictions; a put of a present key evicts nothing.
C4_LruOrder ==
    [][ /\ \A i, j \in 1..Len(cache') :
              i < j => cache'[i].last_accessed <= cache'[j].last_accessed
        /\ PutStep /\ lastOp'.query \notin Keys(cache)
              /\ Len(cache) >= max_size /\ Len(cache) >= 1
           => /\ Len(cache') = Len(cache)
              /\ \A i \in 1..(Len(cache) - 1) : cache'[i] = cache[i + 1]
              /\ cache'[Len(cache')].query = lastOp'.query
              /\ \A i \in 1..Len(cache) :
                    cache[1].last_accessed <= cache[i].last_accessed
              /\ stats'.evictions = stats.evictions + 1
        /\ PutStep /\ lastOp'.query \in Keys(cache)
           => /\ stats'.evictions = stats.evictions
              /\ Keys(cache') = Keys(cache)
              /\ cache'[Len(cache')].query = lastOp'.query ]_vars

C4_Witness ==
    /\ lastOp.op = "put"
    /\ max_size >= 2
    /\ Len(cache) = max_size
    /\ stats.evictions = 1
    /\ stats.hits >= 1
    /\ cache[1].last_accessed > cache[1].timestamp

\* C5: put(q, e, r) immediately followed by get(q, e) while the entry has
\* not expired returns r, adds 1 to hits and leaves misses unchanged.
C5_PutThenGet ==
    [][ /\ lastOp.op = "put"
        /\ GetStep
        /\ lastOp'.query = lastOp.query
        /\ lastOp'.emb = lastOp.emb
        /\ \A i \in 1..Len(cache) :
              cache[i].query = lastOp.query => Age(cache[i], now) <= ttl_seconds
        => /\ ret'.value = lastOp.result
           /\ stats'.hits = stats.hits + 1
           /\ stats'.misses = stats.misses ]_vars

C5_Witness ==
    /\ lastOp.op = "get"
    /\ ncalls = 2
    /\ stats.hits = 1
    /\ Len(cache) = 1
    /\ cache[1].query = lastOp.query
    /\ ret.value = cache[1].result
    /\ now >= 1

\* C6: a get whose query is not a stored key returns the result of the
\* live entry of greatest similarity iff that similarity is >= the
\* threshold (the entry becomes most recent, hits + 1); otherwise it
\* returns none and adds 1 to misses.
C6_SemanticLookup ==
    [][ GetStep /\ lastOp'.query \notin Keys(cache)
        => LET live == Live(cache, now)
               sim(i) == CosineSimilarity(lastOp'.emb, cache[i].query_embedding)
           IN IF /\ live # {}
                 /\ \E i \in live : sim(i) >= similarity_threshold
              THEN \E i \in live :
                     /\ \A j \in live : sim(j) <= sim(i)
                     /\ ret'.value = cache[i].result
                     /\ cache'[Len(cache')].query = cache[i].query
                     /\ stats'.hits = stats.hits + 1
              ELSE /\ ret'.value = None
                   /\ stats'.misses = stats.misses + 1 ]_vars

\* C7: a get never returns the result of an entry older than ttl_seconds;
\* a get on the key of an expired entry removes it, adds 1 to expired and
\* to misses, and returns none.
C7_NoExpiredResult ==
    [][ GetStep
        => /\ ret'.value # None
              => \E i \in Live(cache, now) :
                    /\ ret'.value = cache[i].result
                    /\ cache'[Len(cache')].query = cache[i].query
           /\ \A i \in 1..Len(cache) :
                 cache[i].query = lastOp'.query /\ i \notin Live(cache, now)
                 => /\ ret'.value = None
                    /\ lastOp'.query \notin Keys(cache')
                    /\ Len(cache') = Len(cache) - 1
                    /\ stats'.expired = stats.expired + 1
                    /\ stats'.misses = stats.misses + 1 ]_vars

C7_Witness ==
    /\ lastOp.op = "get"
    /\ ncalls = 2
    /\ stats.expired = 1
    /\ stats.misses = 1
    /\ ret.value = None
    /\ cache = <<>>


\* ======================================================================
\* Properties of the threaded cache (checked under SpecConc)
\* ======================================================================
InCritical(t) == pc[t] \notin {"idle", "acquire"}

Consistent(st, size) ==
    /\ st.hits + st.misses = st.total_queries
    /\ max_size >= 1 => size <= max_size

\* C8: operations are atomic.  Only the lock holder is inside an operation;
\* when an operation is about to return, the cache, the counters and the
\* return value are those of the whole operation applied in one step to
\* the state found when the lock was taken; no get_stats snapshot and no
\* state seen with the lock free has hits + misses # total_queries or
\* (for max_size >= 1) size > max_size.
C8_Atomic ==
    /\ \A t \in Threads : InCritical(t) => lock.owner = t
    /\ \A t \in Threads :
          pc[t] = "release" =>
             /\ \E tau \in 0..now :
                   LET out == Apply(call[t], saved.cache, saved.stats, tau)
                   IN /\ cache = out.cache
                      /\ stats = out.stats
                      /\ tret[t] = out.ret
             /\ call[t].op = "get_stats" =>
                   LET sn == tret[t].snapshot
                   IN /\ Consistent(sn, sn.size)
                      /\ sn.hits = saved.stats.hits
                      /\ sn.misses = saved.stats.misses
                      /\ sn.total_queries = saved.stats.total_queries
                      /\ sn.size = Len(saved.cache)
    /\ lock.owner = NoThread => Consistent(stats, Len(cache))

C8_Witness ==
    /\ \E t \in Threads : pc[t] = "get_lookup"
    /\ \E t \in Threads : pc[t] = "acquire" /\ call[t].op = "get_stats"
    /\ stats.hits + stats.misses # stats.total_queries
    /\ cache # <<>>

\* C9: no step of any thread lowers hits, misses, evictions, expired or
\* total_queries, clear and clear_expired included.
C9_CountersMonotone ==
    [][ /\ stats'.hits >= stats.hits
        /\ stats'.misses >= stats.misses
        /\ stats'.evictions >= stats.evictions
        /\ stats'.expired >= stats.expired
        /\ stats'.total_queries >= stats.total_queries ]_vars

C9_Witness ==
    \E t, u \in Threads :
        /\ pc[t] = "release"
        /\ call[t].op = "clear"
        /\ cache = <<>>
        /\ stats.total_queries >= 1
        /\ pc[u] = "acquire"

\* C10: a thread that has returned does not hold the lock; while a call is
\* in progress some thread can take a step; and every call returns: again
\* and again no call is in progress and the lock is free (checked under
\* SpecConcFair).
Quiescent ==
    /\ \A t \in Threads : pc[t] = "idle"
    /\ lock = [owner |-> NoThread, count |-> 0]

C10_DeadlockFree ==
    /\ [](\A t \in Threads : pc[t] = "idle" => lock.owner # t)
    /\ []((\E t \in Threads : pc[t] # "idle")
             => ENABLED (\E t \in Threads : ThreadStep(t)))
    /\ []<>Quiescent

C10_Witness ==
    \E t, u \in Threads :
        /\ pc[t] = "release"
        /\ call[t].op = "get"
        /\ stats.expired = saved.stats.expired + 1
        /\ tret[t].value = None
        /\ pc[u] = "acquire"
        /\ lock.owner = t

\* ======================================================================
\* Properties of SimpleBM25.search (checked under SpecBM25)
\* ======================================================================
\* C20: every chunk returned by search has a score > 0 and satisfies every
\* filter predicate; the returned list is sorted by non-increasing
\* bm25_score and holds at most top_k chunks.
C20_BM25SearchResults ==
    /\ \A i \in 1..Len(bm_results) :
          /\ bm_results[i].bm25_score > 0
          /\ bm_results[i].score = bm_results[i].bm25_score
          /\ \A key \in DOMAIN bm_call.filters :
                /\ key \in DOMAIN bm_results[i]
                /\ bm_call.filters[key].kind = "str"
                /\ bm_results[i][key] = bm_call.filters[key].str
    /\ \A i, j \in 1..Len(bm_results) :
          i < j => bm_results[i].bm25_score >= bm_results[j].bm25_score
    /\ Len(bm_results) <= bm_call.top_k

C20_Witness ==
    /\ bm_call.top_k = 2
    /\ Len(bm_results) = 2
    /\ bm_results[1].bm25_score > bm_results[2].bm25_score
    /\ DOMAIN bm_call.filters = {"chunk_tier", "chunk_type"}
    /\ \E d \in 1..bm25.num_docs :
          /\ DocScore(bm25, tokenize(bm_call.query), d)
                > bm_results[2].bm25_score
          /\ bm25.chunks[d].chunk_type # "child_process"

\* ======================================================================
\* Properties of search_by_code (checked under SpecByCode)
\* ======================================================================
ChunksOf(points, code) ==
    {i \in 1..Len(points) : points[i].thu_tuc_id = code}

\* C13: a lookup for procedure P (parents and children included) returns,
\* with a filter F, every parent-tier chunk of P plus exactly the
\* child-tier chunks of P whose chunk_type equals F (or is a member of F
\* when F is a list), and with no filter all chunks of P; parents come
\* first and the chunks are then ordered by chunk_id.
C13_ExactCodeFilter ==
    (/\ code_results.returned
     /\ code_call.client_ok
     /\ code_call.include_parent
     /\ code_call.include_children)
    => LET F == code_call.chunk_type_filter
           found == code_results.chunks
           P == ChunksOf(store, code_call.thu_tuc_id)
           wanted ==
               IF FilterGiven(F)
               THEN {i \in P :
                       \/ store[i].chunk_tier = "parent"
                       \/ /\ store[i].chunk_tier = "child"
                          /\ IF F.kind = "str"
                             THEN store[i].chunk_type = F.str
                             ELSE InList(store[i].chunk_type, F.list)}
               ELSE P
       IN /\ {found[i].chunk_id : i \in 1..Len(found)}
                = {store[i].chunk_id : i \in wanted}
          /\ Len(found) = Cardinality(wanted)
          /\ \A i, j \in 1..Len(found) :
                i < j =>
                   /\ found[j].chunk_tier = "parent"
                         => found[i].chunk_tier = "parent"
                   /\ found[i].chunk_tier = found[j].chunk_tier
                         => found[i].chunk_id
                               < found[j].chunk_id

\* ======================================================================
\* Properties of retrieve (checked under SpecPipe)
\* ======================================================================
CallReturned == ppc = "ended" /\ outcome = "returned"

\* the call in progress was answered by the cache
ServedFromCache == stats.hits = at_entry.stats.hits + 1

C12_ExactCodeRouting ==
    (CallReturned /\ ~ServedFromCache) =>
        LET exact_code == retr.query_info.exact_code
            chunks == retr.result.retrieved_chunks
        IN IF /\ exact_code # None
              /\ exact_lookup(store, retr.query_info, retr.env) # <<>>
           THEN /\ retr.result.confidence = One
                /\ retr.result.metadata.search_type = "exact_code_match"
                /\ chunks # <<>>
                /\ \A i \in 1..Len(chunks) : chunks[i].ma_thu_tuc = exact_code
           ELSE /\ retr.result.metadata.search_type = Absent
                /\ retr.result.metadata.query_variations
                      = retr.query_info.query_variations

\* a question with the code 1.013133 got the chunks of that procedure
C12_Witness ==
    /\ CallReturned
    /\ ~ServedFromCache
    /\ retr.query_info.exact_code = "1.013133"
    /\ retr.result.metadata.search_type = "exact_code_match"
    /\ Len(retr.result.retrieved_chunks) >= 2

\* C14: every result retrieve returns (from the cache, the exact-code
\* path or the hybrid path) holds at most chunks x max_descendants +
\* max_siblings retrieved chunks, for the context configuration of the
\* result's intent.
C14_RetrievedChunksBound ==
    CallReturned =>
        LET config == get_context_config(retr.result.intent)
        IN Len(retr.result.retrieved_chunks)
              <= config.chunks * config.max_descendants + config.max_siblings

\* C15: the confidence of every returned result lies between 0 and 1
\* (One), with or without a reranker, and the confidence of a hybrid
\* result whose context holds no chunk is 0.
C15_ConfidenceInUnitInterval ==
    CallReturned =>
        /\ retr.result.confidence >= 0
        /\ retr.result.confidence <= One
        /\ ( /\ retr.result.metadata.search_type = Absent
             /\ retr.result.context = <<>> ) => retr.result.confidence = 0

\* a call of cache.get or cache.put made by the call in progress raised
CacheCallRaised ==
    /\ use_cache
    /\ \/ ~retr.env.get_ok
       \/ /\ ~retr.env.put_ok
          /\ ~ServedFromCache
          /\ ~Stages1To8(store, bm25, reranker, retr.question,
                         at_entry.top_k_final, retr.env).raised

\* C16: a call during which cache.get or cache.put raised still returns,
\* and returns the result of the same call on a pipeline without cache.
C16_CacheFailureNotFatal ==
    (ppc = "ended" /\ outcome # "aborted" /\ CacheCallRaised) =>
        /\ outcome = "returned"
        /\ retr.result
              = RetrieveAll([Conf EXCEPT !.use_cache = FALSE],
                            at_entry.cache, at_entry.stats, now,
                            retr.question, at_entry.top_k_final,
                            retr.env).result

\* a call of the embedder or of the vector store made by the call in
\* progress failed: the encode of Stage 0, the scroll of Stage 2, or a
\* search of Stages 3-4
ServiceCallFailed ==
    \/ use_cache /\ ~retr.env.embedder_ok
    \/ /\ ~retr.env.scroll_ok
       /\ retr.query_info.exact_code # None
    \/ /\ ~retr.env.store_ok
       /\ retr.query_info # NoQueryInfo
       /\ \/ retr.query_info.exact_code = None
          \/ exact_lookup(store, retr.query_info, retr.env) = <<>>

\* C17: a call during which an embedder or vector-store call failed ends
\* with an error for the caller and with no result.
C17_ServiceFailureSurfaces ==
    (ppc = "ended" /\ outcome # "aborted" /\ ServiceCallFailed) =>
        /\ outcome = "raised"
        /\ retr.result = NoResult

\* C18: a call that was aborted, or during which an embedder or
\* vector-store call failed, leaves no entry in the cache for a question
\* that had none when the call began.
C18_FailedCallCommitsNothing ==
    (ppc = "ended" /\ (outcome = "aborted" \/ ServiceCallFailed)) =>
        (~Has(at_entry.cache, retr.question) => ~Has(cache, retr.question))

\* ======================================================================
\* Properties of save_index / load_index (checked under SpecPersist)
\* ======================================================================
\* the second object holds what a file saved from the built index holds
LoadedFromBuilt ==
    /\ bm25.is_built
    /\ bm_loaded.is_built
    /\ SavedData(bm_loaded) = SavedData(bm25)

\* C21: after save then load of a built index, a search on the loaded
\* index returns the same sequence of chunks with the same scores as the
\* same search on the index that was saved.
C21_SaveLoadSearchEquivalent ==
    (ld_results.done /\ LoadedFromBuilt) =>
        /\ ~ld_results.raised
        /\ ld_results.results = bm_results

\* ======================================================================
\* Properties of the filtered searches of the hybrid path (SpecPipe)
\* ======================================================================
\* the hybrid stages of the call have run (ppc = "put": just now)
HybridRan ==
    /\ ppc \in {"put", "ended"}
    /\ outcome # "aborted"
    /\ retr.query_info # NoQueryInfo
    /\ retr.result.metadata.search_type # "exact_code_match"

\* the ids of the chunks of a result list
IdsOf(results) == {results[i].chunk_id : i \in 1..Len(results)}

\* the child chunks whose chunk_type is one of types
MembersOf(points, types) ==
    {points[i].chunk_id : i \in
        {j \in 1..Len(points) : /\ points[j].chunk_tier = "child"
                                /\ InList(points[j].chunk_type, types)}}

\* C22: with a set-valued chunk_type filter the Stage 4 vector search and
\* the Stage 5 BM25 search do not fail and match a child chunk if and only
\* if its chunk_type is a member of the set.
C22_SetFilterMatchesMembers ==
    (/\ HybridRan
     /\ retr.env = AllWell
     /\ retr.query_info.filters.kind = "list") =>
        /\ outcome # "raised"
        /\ \A i \in 1..Len(retr.query_info.query_variations) :
              /\ ~ChildSearch(store, retr.query_info,
                              retr.query_info.query_variations[i],
                              retr.env).raised
              /\ IdsOf(ChildSearch(store, retr.query_info,
                                   retr.query_info.query_variations[i],
                                   retr.env).hits)
                    = MembersOf(store, retr.query_info.filters.list)
        /\ bm25.is_built =>
              IdsOf(BM25Search(bm25, Words(retr.question), top_k_child,
                               [chunk_tier |-> StrValue("child"),
                                chunk_type |-> retr.query_info.filters]))
                 = IdsOf(BM25Search(bm25, Words(retr.question), top_k_child,
                                    [chunk_tier |-> StrValue("child")]))
                      \cap MembersOf(store, retr.query_info.filters.list)

\* ======================================================================
\* Properties of enhance_query (checked under SpecEnhance)
\* ======================================================================
\* C23: for every question and every outcome of the LLM calls the
\* descriptor's query_variations holds between 1 and 3 elements.
C23_VariationsBetweenOneAndThree ==
    eq_call.called =>
        /\ Len(eq_result.query_variations) >= 1
        /\ Len(eq_result.query_variations) <= 3

\* ======================================================================
\* Properties of the cache calls of retrieve (checked under SpecPipe)
\* ======================================================================
\* C24: with the cache enabled a call of retrieve calls cache.get once,
\* before any other stage; a hit returns with no later stage and no put;
\* a miss that returns has called cache.put(question, embedding, result)
\* once, after the result was assembled, with the embedding of Stage 0.
C24_OneGetThenOnePut ==
    use_cache =>
        /\ ppc \in {"stage1", "stage2", "stage3", "put"} =>
              /\ retr.gets = 1
              /\ retr.puts = 0
              /\ retr.query_embedding
                    = encode(retr.question, retr.env.embedder_ok)
        /\ ppc \in {"stage1", "stage2", "stage3"} => retr.result = NoResult
        /\ ppc = "put" => retr.result # NoResult
        /\ (ppc = "ended" /\ outcome # "aborted") => retr.gets = 1
        /\ (CallReturned /\ ServedFromCache) =>
              /\ retr.puts = 0
              /\ retr.query_info = NoQueryInfo
              /\ cache[Len(cache)].result = retr.result
        /\ (CallReturned /\ ~ServedFromCache) =>
              /\ retr.puts = 1
              /\ retr.query_info # NoQueryInfo
              /\ Has(cache, retr.question)
              /\ cache[IndexOf(cache, retr.question)].query_embedding
                    = encode(retr.question, retr.env.embedder_ok)
              /\ cache[IndexOf(cache, retr.question)].result = retr.result

C24_Witness ==
    /\ use_cache
    /\ CallReturned
    /\ ~ServedFromCache
    /\ retr.puts = 1
    /\ retr.result.metadata.search_type = "exact_code_match"
    /\ nretr = 2
    /\ at_entry.cache # <<>>

\* ======================================================================
\* Properties of the Stage 4 cross-tier filter (SpecPipe)
\* ======================================================================
\* the hits that belong to a procedure of the Stage 3 parent set
OfParents(hits, parent_results) ==
    SelectSeq(hits, LAMBDA c :
        \E p \in 1..Len(parent_results) :
            parent_results[p].ma_thu_tuc = c.ma_thu_tuc)

\* kept is expected, each entry marked cross_tier_match = match
KeptAre(kept, expected, match) ==
    /\ Len(kept) = Len(expected)
    /\ \A i \in 1..Len(kept) :
          /\ kept[i].cross_tier_match = match
          /\ [kept[i] EXCEPT !.cross_tier_match = Absent] = expected[i]

KeptAsStated(kept, hits, parent_results) ==
    IF OfParents(hits, parent_results) # <<>>
    THEN KeptAre(kept, OfParents(hits, parent_results), "True")
    ELSE KeptAre(kept, Take(hits, 5), "False")

\* the hits that are filtered: those of the strict search, or of the
\* search without chunk_type when the strict one yields nothing
HitsAsStated(strict, relaxed, searched) ==
    IF strict.hits = <<>> THEN searched = relaxed ELSE searched = strict

FoundAsStated(points, query_info, env, variations, found) ==
    ~found.raised =>
        /\ Len(found.child_results) = Len(variations)
        /\ \A i \in 1..Len(variations) :
              \A searched \in {ChildSearch(points, query_info,
                                           variations[i].v, env)} :
                 /\ HitsAsStated(
                       Search(points,
                              encode(variations[i].v, env.embedder_ok),
                              top_k_child, "child",
                              StrictFilter(query_info.filters),
                              env.store_ok),
                       Search(points,
                              encode(variations[i].v, env.embedder_ok),
                              top_k_child, "child", NoTypeFilter,
                              env.store_ok),
                       searched)
                 /\ KeptAsStated(found.child_results[i].results,
                                 searched.hits, found.parent_results)

\* C25: for every query variation of Stage 4 the kept entries are the hits
\* of the procedures of the Stage 3 parents, marked cross_tier_match true,
\* when there is such a hit, and otherwise the first five hits, marked
\* false; a chunk_type search without a hit is made again without the
\* chunk_type filter before the filtering.
C25_CrossTierKeepsOwnOrTopFive ==
    (HybridRan /\ ppc = "put") =>
        \A found \in {hierarchical_retrieve(store, retr.query_info,
                                            retr.env)} :
            FoundAsStated(store, retr.query_info, retr.env,
                          Distinct(retr.query_info.query_variations), found)

\* more than five hits of a variation, none of a procedure of the parents
OrphansOnly(found, searches) ==
    \E i \in 1..Len(searches) :
        /\ Len(searches[i].hits) > 5
        /\ OfParents(searches[i].hits, found.parent_results) = <<>>
        /\ Len(found.child_results[i].results) = 5

\* a strict search without a hit, the search made again has hits of the
\* procedures of the parents and others
RetriedAndFiltered(points, query_info, env, variations, found) ==
    \E i \in 1..Len(variations) :
        /\ FilterGiven(query_info.filters)
        /\ Search(points, encode(variations[i].v, env.embedder_ok),
                  top_k_child, "child", StrictFilter(query_info.filters),
                  env.store_ok) = [raised |-> FALSE, hits |-> <<>>]
        /\ found.child_results[i].results # <<>>

C25_Witness ==
    /\ HybridRan
    /\ retr.env = AllWell
    /\ OrphansOnly(hierarchical_retrieve(store, retr.query_info, retr.env),
                   ChildSearches(store, retr.query_info,
                       Distinct(retr.query_info.query_variations), retr.env))

C25_Retried ==
    /\ HybridRan
    /\ retr.env = AllWell
    /\ RetriedAndFiltered(store, retr.query_info, retr.env,
           Distinct(retr.query_info.query_variations),
           hierarchical_retrieve(store, retr.query_info, retr.env))

\* ======================================================================
\* Properties of the reranker (SpecPipe)
\* ======================================================================
\* the documents Stage 7 is given
RerankInput(found, bm25_source) ==
    reciprocal_rank_fusion(found.child_results \o bm25_source)

\* the 1-based position of the chunk in the list (0: not in it)
PositionIn(documents, chunk_id) ==
    IF \E p \in 1..Len(documents) : documents[p].chunk_id = chunk_id
    THEN CHOOSE p \in 1..Len(documents) :
            /\ documents[p].chunk_id = chunk_id
            /\ \A o \in 1..(p - 1) : documents[o].chunk_id # chunk_id
    ELSE 0

TopOfInput(documents, top_k, reranked) ==
    /\ Len(reranked) = Min(top_k, Len(documents))
    /\ \A i \in 1..Len(reranked) :
          /\ PositionIn(documents, reranked[i].chunk_id) # 0
          /\ reranked[i].final_score
                = EnsembleScore(documents[PositionIn(documents,
                                                     reranked[i].chunk_id)])
          /\ \A j \in 1..(i - 1) :
                reranked[j].final_score >= reranked[i].final_score
    /\ \A p \in 1..Len(documents) :
          (\A i \in 1..Len(reranked) :
              reranked[i].chunk_id # documents[p].chunk_id) =>
                \A i \in 1..Len(reranked) :
                    reranked[i].final_score >= EnsembleScore(documents[p])

RanksOfInput(documents, reranked) ==
    \A i \in 1..Len(reranked) :
        reranked[i].original_rank
            = PositionIn(documents, reranked[i].chunk_id)

\* the reranker has moved a chunk that it returns
Reordered(documents, reranked) ==
    \E i \in 1..Len(reranked) :
        PositionIn(documents, reranked[i].chunk_id) # i

RerankerRan ==
    /\ HybridRan
    /\ reranker
    /\ outcome # "raised"

\* C26: the reranker returns at most top_k of its input candidates,
\* sorted by non-increasing final_score, the weighted ensemble of the
\* clamped scores, and the original_rank of each returned chunk is its
\* 1-based position in the input list.
C26_RerankerKeepsOriginalRank ==
    RerankerRan =>
        /\ TopOfInput(
              RerankInput(
                  hierarchical_retrieve(store, retr.query_info, retr.env),
                  bm25_results(bm25, retr.question, retr.query_info)),
              retr.top_k_final, retr.result.retrieved_chunks)
        /\ RanksOfInput(
              RerankInput(
                  hierarchical_retrieve(store, retr.query_info, retr.env),
                  bm25_results(bm25, retr.question, retr.query_info)),
              retr.result.retrieved_chunks)

\* the part of C26 that does not concern original_rank
C26_TopKByEnsemble ==
    RerankerRan =>
        TopOfInput(
            RerankInput(
                hierarchical_retrieve(store, retr.query_info, retr.env),
                bm25_results(bm25, retr.question, retr.query_info)),
            retr.top_k_final, retr.result.retrieved_chunks)

C26_Reordered ==
    /\ RerankerRan
    /\ Reordered(
          RerankInput(
              hierarchical_retrieve(store, retr.query_info, retr.env),
              bm25_results(bm25, retr.question, retr.query_info)),
          retr.result.retrieved_chunks)

\* ======================================================================
\* Properties of _assemble_context (SpecAssemble)
\* ======================================================================
MainBlocks(context) == SelectSeq(context, LAMBDA b : ~b.related)

RelatedBlocks(context) == SelectSeq(context, LAMBDA b : b.related)

DocOf(children, chunk_id) == children[PositionIn(children, chunk_id)]

ProceduresOf(children, ids) ==
    {DocOf(children, id).ma_thu_tuc : id \in ids}

\* some chunk of the procedure of a scores at least as high as b
BestAtLeast(children, a, b) ==
    \E c \in IdsOf(children) :
        /\ DocOf(children, c).ma_thu_tuc = DocOf(children, a).ma_thu_tuc
        /\ DocOf(children, c).final_score >= DocOf(children, b).final_score

ChunksOfProcedure(children, ids, proc_id) ==
    {id \in ids : DocOf(children, id).ma_thu_tuc = proc_id}

\* the main blocks are those of the top procedures and of the top chunks
\* of each
LimitsAsStated(children, main_ids, config) ==
    /\ main_ids \subseteq IdsOf(children)
    /\ Cardinality(ProceduresOf(children, main_ids))
          = Min(config.chunks,
                Cardinality(ProceduresOf(children, IdsOf(children))))
    /\ \A a \in main_ids, b \in IdsOf(children) :
          DocOf(children, b).ma_thu_tuc
              \notin ProceduresOf(children, main_ids)
                  => BestAtLeast(children, a, b)
    /\ \A proc_id \in ProceduresOf(children, main_ids) :
          Cardinality(ChunksOfProcedure(children, main_ids, proc_id))
              = Min(config.max_descendants,
                    Cardinality(ChunksOfProcedure(children, IdsOf(children),
                                                  proc_id)))
    /\ \A a \in main_ids, b \in IdsOf(children) \ main_ids :
          DocOf(children, a).ma_thu_tuc = DocOf(children, b).ma_thu_tuc
              => DocOf(children, a).final_score
                    >= DocOf(children, b).final_score

\* the parent of the overview: the one the top child names, or else one of
\* the procedure of the child, or else none
OverviewAsStated(overview, parents, top_child) ==
    IF \E p \in 1..Len(parents) :
          parents[p].chunk_id = top_child.parent_chunk_id
    THEN overview = top_child.parent_chunk_id
    ELSE IF \E p \in 1..Len(parents) :
               parents[p].ma_thu_tuc = top_child.ma_thu_tuc
         THEN \E p \in 1..Len(parents) :
                 /\ parents[p].ma_thu_tuc = top_child.ma_thu_tuc
                 /\ overview = parents[p].chunk_id
         ELSE overview = 0

FirstOfProcedure(children, main, i) ==
    \A j \in 1..(i - 1) :
        DocOf(children, main[j].chunk).ma_thu_tuc
            # DocOf(children, main[i].chunk).ma_thu_tuc

OverviewsAsStated(parents, children, main, config) ==
    \A i \in 1..Len(main) :
        IF FirstOfProcedure(children, main, i) /\ config.include_parents
        THEN /\ OverviewAsStated(main[i].overview, parents,
                                 DocOf(children, main[i].chunk))
             /\ \A j \in (i + 1)..Len(main) :
                   DocOf(children, main[j].chunk).ma_thu_tuc
                       = DocOf(children, main[i].chunk).ma_thu_tuc
                   => DocOf(children, main[i].chunk).final_score
                         >= DocOf(children, main[j].chunk).final_score
        ELSE main[i].overview = 0

ContextAsStated(parents, children, main, config) ==
    /\ Len(main) = Cardinality({main[i].chunk : i \in 1..Len(main)})
    /\ LimitsAsStated(children, {main[i].chunk : i \in 1..Len(main)},
                      config)
    /\ OverviewsAsStated(parents, children, main, config)

\* C27: context assembly emits main blocks for at most config.chunks
\* procedures, those of the highest best final_score, and at most
\* config.max_descendants blocks per procedure, its highest-scored chunks;
\* the parent overview of a procedure is in its first block only, and only
\* with include_parents; the parent is the one the top child names by
\* parent_chunk_id and otherwise one of the same procedure id.
C27_ContextLimitsAndParent ==
    asm_call.called =>
        ContextAsStated(asm_call.parent_results, asm_call.child_results,
                        MainBlocks(asm_result.context), asm_call.config)

\* more procedures than config.chunks, a procedure of the context with more
\* chunks than config.max_descendants, and an overview of a parent that is
\* not the first parent of the procedure
LimitsAtWork(parents, children, main, config) ==
    /\ Cardinality(ProceduresOf(children, IdsOf(children))) > config.chunks
    /\ \E i \in 1..Len(main) :
          Cardinality(ChunksOfProcedure(children, IdsOf(children),
                          DocOf(children, main[i].chunk).ma_thu_tuc))
              > config.max_descendants
    /\ \E i \in 1..Len(main) :
          /\ main[i].overview # 0
          /\ main[i].overview
                # ResolveParent_ByProcedureOnly(parents,
                      DocOf(children, main[i].chunk))

C27_Witness ==
    /\ asm_call.called
    /\ LimitsAtWork(asm_call.parent_results, asm_call.child_results,
                    MainBlocks(asm_result.context), asm_call.config)

\* the parent found by the procedure id: the top child names none
C27_Fallback ==
    /\ asm_call.called
    /\ \E i \in 1..Len(asm_result.context) :
          /\ asm_result.context[i].overview # 0
          /\ DocOf(asm_call.child_results,
                   asm_result.context[i].chunk).parent_chunk_id = 0

C27_WithoutParents ==
    /\ asm_call.called
    /\ ~asm_call.config.include_parents
    /\ asm_call.parent_results # <<>>
    /\ asm_result.context # <<>>

\* ======================================================================
\* Properties of the related chunks of the context (SpecPipe, SpecAssemble)
\* ======================================================================
\* the related blocks are the best chunks of min(max_siblings, number of
\* the other procedures) procedures that have no main block, best first
RelatedAsStated(candidates, main, related, config) ==
    /\ Len(related)
          = Min(config.max_siblings,
                Cardinality(ProceduresOf(candidates, IdsOf(candidates)))
                    - config.chunks)
    /\ \A i \in 1..Len(related) :
          /\ related[i].chunk \in IdsOf(candidates)
          /\ \A j \in 1..Len(main) :
                DocOf(candidates, main[j].chunk).ma_thu_tuc
                    # DocOf(candidates, related[i].chunk).ma_thu_tuc
          /\ \A j \in 1..(i - 1) :
                DocOf(candidates, related[j].chunk).ma_thu_tuc
                    # DocOf(candidates, related[i].chunk).ma_thu_tuc

\* the candidates are of more procedures than the context has main blocks
\* for, and related chunks are asked for
SiblingsDue(candidates, config) ==
    /\ config.max_siblings > 0
    /\ Cardinality(ProceduresOf(candidates, IdsOf(candidates)))
          > config.chunks

\* C28: when max_siblings > 0 and the retrieval stages found candidate
\* chunks of more procedures than config.chunks, the context that retrieve
\* returns has related-chunk blocks: the best chunk of each procedure that
\* is not among the top ones, best first, up to max_siblings of them.
C28_RelatedChunksInContext ==
    (/\ HybridRan
     /\ outcome # "raised"
     /\ SiblingsDue(
           RerankInput(
               hierarchical_retrieve(store, retr.query_info, retr.env),
               bm25_results(bm25, retr.question, retr.query_info)),
           get_context_config(retr.query_info.intent))) =>
        RelatedAsStated(
            RerankInput(
                hierarchical_retrieve(store, retr.query_info, retr.env),
                bm25_results(bm25, retr.question, retr.query_info)),
            MainBlocks(retr.result.context),
            RelatedBlocks(retr.result.context),
            get_context_config(retr.query_info.intent))

\* candidates of more procedures than config.chunks were found
C28_SiblingsDue ==
    /\ HybridRan
    /\ outcome # "raised"
    /\ retr.env = AllWell
    /\ SiblingsDue(
          RerankInput(
              hierarchical_retrieve(store, retr.query_info, retr.env),
              bm25_results(bm25, retr.question, retr.query_info)),
          get_context_config(retr.query_info.intent))

\* no context that retrieve returns has a related-chunk block
C28_NoRelatedBlockReturned ==
    CallReturned => RelatedBlocks(retr.result.context) = <<>>

\* _assemble_context itself emits the related chunks of the chunks it is
\* given
C28_AssembleEmitsRelated ==
    (asm_call.called /\ SiblingsDue(asm_call.child_results, asm_call.config))
        => RelatedAsStated(asm_call.child_results,
                           MainBlocks(asm_result.context),
                           RelatedBlocks(asm_result.context),
                           asm_call.config)

\* ======================================================================
\* Properties of a lookup that meets an embedding of another dimension
\* (SpecDim)
\* ======================================================================
\* the live entries whose embedding has not the dimension of emb
Corrupted(c, emb, t) ==
    {i \in 1..Len(c) : /\ ~IsExpired(c[i], t)
                       /\ Len(c[i].query_embedding) # Len(emb)}

WithoutCorrupted(c, emb, t) ==
    SelectSeq(c, LAMBDA en : \/ IsExpired(en, t)
                             \/ Len(en.query_embedding) = Len(emb))

\* a get that goes through the entries and meets such an entry
MeetsCorrupted ==
    /\ GetStep
    /\ lastOp'.query \notin Keys(cache)
    /\ Corrupted(cache, lastOp'.emb, now) # {}

\* C29: a semantic lookup that meets a stored entry whose embedding has
\* not the dimension of the query embedding treats the entry as absent
\* and removes it: the entry is not stored when the get has returned.
C29_CorruptedEntryRemoved ==
    [][MeetsCorrupted =>
          /\ ret' = Apply(lastOp', WithoutCorrupted(cache, lastOp'.emb, now),
                          stats, now).ret
          /\ \A i \in Corrupted(cache, lastOp'.emb, now) :
                cache[i].query \notin Keys(cache')]_vars

\* the part of C29 about the answer of the lookup
C29_TreatedAsAbsent ==
    [][MeetsCorrupted =>
          ret' = Apply(lastOp', WithoutCorrupted(cache, lastOp'.emb, now),
                       stats, now).ret]_vars

\* such an entry is still stored, unchanged
C29_CorruptedEntryKept ==
    [][MeetsCorrupted =>
          \A i \in Corrupted(cache, lastOp'.emb, now) :
              \E j \in 1..Len(cache') : cache'[j] = cache[i]]_vars

\* a get has met an entry of another dimension and one of its own that is
\* similar enough
C29_Met ==
    /\ lastOp.op = "get"
    /\ lastOp.query \notin Keys(cache)
    /\ Corrupted(cache, lastOp.emb, now) # {}
    /\ ret.value # None

\* ======================================================================
\* Properties of the scores given to the reranker (SpecPipe)
\* ======================================================================
\* the semantic lists that hold the chunk
SemanticListsWith(child_results, chunk_id) ==
    {i \in 1..Len(child_results) :
        chunk_id \in IdsOf(child_results[i].results)}

\* the record of every chunk of the BM25 list has the BM25 score and,
\* when a semantic list holds the chunk too, a semantic score of it
BothScoresKept(child_results, bm25_source, documents) ==
    \A s \in 1..Len(bm25_source) :
        \A r \in 1..Len(bm25_source[s].results) :
            /\ PositionIn(documents, bm25_source[s].results[r].chunk_id) # 0
            /\ DocOf(documents,
                     bm25_source[s].results[r].chunk_id).bm25_score
                  = bm25_source[s].results[r].bm25_score
            /\ SemanticListsWith(child_results,
                                 bm25_source[s].results[r].chunk_id) # {}
                  => \E i \in SemanticListsWith(child_results,
                                  bm25_source[s].results[r].chunk_id) :
                        DocOf(documents,
                              bm25_source[s].results[r].chunk_id).score
                           = DocOf(child_results[i].results,
                                   bm25_source[s].results[r].chunk_id).score

\* the same of the chunks that no semantic list holds
Bm25OnlyScoresKept(child_results, bm25_source, documents) ==
    \A s \in 1..Len(bm25_source) :
        \A r \in 1..Len(bm25_source[s].results) :
            SemanticListsWith(child_results,
                              bm25_source[s].results[r].chunk_id) = {}
                => /\ PositionIn(documents,
                                 bm25_source[s].results[r].chunk_id) # 0
                   /\ DocOf(documents,
                            bm25_source[s].results[r].chunk_id).bm25_score
                         = bm25_source[s].results[r].bm25_score

\* the record of a chunk that both sources found is the semantic one
FoundByBothIsSemantic(child_results, bm25_source, documents) ==
    \A s \in 1..Len(bm25_source) :
        \A r \in 1..Len(bm25_source[s].results) :
            SemanticListsWith(child_results,
                              bm25_source[s].results[r].chunk_id) # {}
                => DocOf(documents,
                         bm25_source[s].results[r].chunk_id).bm25_score = 0

\* C30: every chunk that the Stage 5 BM25 search returned enters the
\* reranker with the bm25_score BM25 computed for it, also when a semantic
\* search returned the chunk; the record of a chunk found by both sources
\* has its semantic score and its bm25_score.
C30_Bm25ScoreReachesReranker ==
    (HybridRan /\ outcome # "raised") =>
        \A found \in {hierarchical_retrieve(store, retr.query_info,
                                            retr.env)},
           bm25_source \in {bm25_results(bm25, retr.question,
                                         retr.query_info)} :
            \A documents \in {RerankInput(found, bm25_source)} :
                BothScoresKept(found.child_results, bm25_source, documents)

\* the part of C30 about the chunks that BM25 alone found
C30_Bm25OnlyKeepsScore ==
    (HybridRan /\ outcome # "raised") =>
        \A found \in {hierarchical_retrieve(store, retr.query_info,
                                            retr.env)},
           bm25_source \in {bm25_results(bm25, retr.question,
                                         retr.query_info)} :
            \A documents \in {RerankInput(found, bm25_source)} :
                Bm25OnlyScoresKept(found.child_results, bm25_source, documents)

\* a chunk found by both sources enters the reranker with bm25_score 0
C30_FoundByBothLosesScore ==
    (HybridRan /\ outcome # "raised") =>
        \A found \in {hierarchical_retrieve(store, retr.query_info,
                                            retr.env)},
           bm25_source \in {bm25_results(bm25, retr.question,
                                         retr.query_info)} :
            \A documents \in {RerankInput(found, bm25_source)} :
                FoundByBothIsSemantic(found.child_results, bm25_source, documents)

\* BM25 found a chunk alone, with a positive score
C30_FoundByBm25Only ==
    /\ HybridRan
    /\ outcome # "raised"
    /\ retr.env = AllWell
    /\ \E i \in 1..Len(retr.result.retrieved_chunks) :
          /\ retr.result.retrieved_chunks[i].bm25_score > 0
          /\ retr.result.retrieved_chunks[i].cross_tier_match = Absent

====
